---- MODULE Spec2Model ----
(***************************************************************************)
(* A model of the puzzle components of the brain-training client: Sudoku,  *)
(* KenKen, Magic Squares, Cryptarithms and HectoClash, with the            *)
(* GameController that wraps the grid games.  One game component is        *)
(* mounted at a time (the /play/:gameType route); each action is one       *)
(* event handler of the mounted component, run to completion, together     *)
(* with the effects React runs after it.                                   *)
(***************************************************************************)
EXTENDS Integers, Sequences, FiniteSets, TLC

VARIABLES
    game,                  \* the mounted game component
    difficulty,            \* GameProvider context value
    timerStarted,          \* GameController state
    isPaused,              \* GameController state (Cryptarithms keeps its own)
    timeIsUp,              \* GameController state
    showDifficultySelector,
    score,
    grid,
    originalGrid,          \* Sudoku
    cages,                 \* KenKen
    size,
    selectedCell,
    hintsRemaining,
    isGameComplete,
    targetSum,             \* Magic Squares
    availableNumbers,      \* Magic Squares
    usedNumbers,           \* Magic Squares
    puzzle,                \* Cryptarithms / HectoClash
    userSolution,          \* Cryptarithms
    letters,               \* Cryptarithms
    hintsUsed,             \* Cryptarithms
    maxHints,              \* Cryptarithms
    isCorrect,             \* Cryptarithms
    showSolution,          \* Cryptarithms
    gameStarted,           \* Cryptarithms
    expression,            \* HectoClash
    usedNumberIndexes,     \* HectoClash
    hint,                  \* HectoClash: the quick hint shown
    toast,                 \* the toast the last handler raised, if any
    generated,             \* history: the grid as the generator returned it
    rounds,                \* history: puzzles generated in this session
    sequence,              \* Number Sequences
    userAnswer,            \* Number Sequences
    isIncorrect,           \* Number Sequences
    showRule,              \* Number Sequences
    aiPending,             \* AIAssistant: the setTimeout callbacks not yet run
    hintCount,             \* AIAssistant state
    loadingHint,           \* AIAssistant state
    submission,            \* the latest request of submitScore
    client,                \* server/ai.ts: the AI client, or null
    hintRequest,           \* server/ai.ts: the generateHint call in progress
    users,                 \* MemStorage: the score of each user, by id
    gameResults,           \* MemStorage: the stored results, by id
    microtasks,            \* MemStorage: the calls waiting at their await
    passed,                \* history: the direct calls of updateUserScore
    res,                   \* the status of the latest response of POST /api/results
    genDifficulty,         \* history: the difficulty the puzzle was generated with
    delivered              \* history: the hints given for the current puzzle

ctrlVars  == <<timerStarted, isPaused, timeIsUp>>
ctxVars   == <<game, difficulty>>
storeVars == <<users, gameResults, microtasks, passed, res>>
serverVars == <<client, hintRequest, storeVars>>
gridVars  == <<grid, originalGrid, cages, size, selectedCell, hintsRemaining,
               isGameComplete, generated>>
magicVars == <<targetSum, availableNumbers, usedNumbers>>
cryptVars == <<userSolution, letters, hintsUsed, maxHints, isCorrect,
               showSolution, gameStarted>>
hectoVars == <<expression, usedNumberIndexes, hint>>
seqVars   == <<sequence, userAnswer, isIncorrect, showRule>>
aiVars    == <<aiPending, hintCount, loadingHint>>
vars == <<game, difficulty, timerStarted, isPaused, timeIsUp,
          showDifficultySelector, score, grid, originalGrid, cages, size,
          selectedCell, hintsRemaining, isGameComplete, targetSum,
          availableNumbers, usedNumbers, puzzle, userSolution, letters,
          hintsUsed, maxHints, isCorrect, showSolution, gameStarted,
          expression, usedNumberIndexes, hint, toast, generated, rounds,
          sequence, userAnswer, isIncorrect, showRule, aiPending, hintCount,
          loadingHint, submission, genDifficulty, delivered, client,
          hintRequest, users, gameResults, microtasks, passed, res>>

----------------------------------------------------------------------------
(* Bounds of the model *)

\* puzzles generated in one session (scores accumulate over puzzles)
MaxRounds == 2

\* characters in a HectoClash expression
MaxExprLen == 5

\* callbacks of the AIAssistant scheduled and not yet run
MaxPending == 2

\* chat messages sent before the first of them is answered
MaxBurst == 4

\* users of the storage, results stored, direct calls of updateUserScore
MaxUsers == 3
MaxResults == 2
MaxDirect == 2

----------------------------------------------------------------------------
(* Shared values *)

Difficulties == {"easy", "medium", "difficult"}

\* a null cell value / a null selectedCell
NULL == 0
NoCell == <<>>

\* sequence === null, an empty answer field, a difficulty not yet used
NoSequence == <<>>
NoAnswer == <<>>
NoDifficulty == ""

Cells(n) == (0 .. n - 1) \X (0 .. n - 1)

Max2(a, b) == IF a >= b THEN a ELSE b

\* difficulty === "easy" ? 3 : difficulty === "medium" ? 2 : 1
HintAllowance(d) == IF d = "easy" THEN 3 ELSE IF d = "medium" THEN 2 ELSE 1

\* difficulty === "easy" ? 1 : difficulty === "medium" ? 2 : 3
DifficultyMultiplier(d) == IF d = "easy" THEN 1 ELSE IF d = "medium" THEN 2 ELSE 3

\* a toast: its title and what its description reports
Toast(title, what, idx, val, aux) ==
    [title |-> title, what |-> what, idx |-> idx, val |-> val, aux |-> aux]

NoToast == Toast("", "", 0, 0, 0)

\* a hint given to the player: by the game's Hint button or by the
\* AIAssistant, and its text
\* initializeUsers: the scores of the default users, of which the model
\* keeps the first two
DefaultScores == <<1892, 1845>>

\* server/ai.ts: let client = null, and no generateHint call running
NoClient == "null"
NoRequest ==
    [state |-> "idle", gameType |-> "", difficulty |-> "", outcome |-> "none",
     text |-> ""]

Delivery(via, text) == [via |-> via, text |-> text]

RECURSIVE SeqSum(_)
SeqSum(s) == IF s = <<>> THEN 0 ELSE Head(s) + SeqSum(Tail(s))

RECURSIVE SeqProd(_)
SeqProd(s) == IF s = <<>> THEN 1 ELSE Head(s) * SeqProd(Tail(s))

SeqRange(s) == {s[i] : i \in 1 .. Len(s)}

----------------------------------------------------------------------------
(* GameController: the wrapper of Sudoku, KenKen and Magic Squares *)

UsesController ==
    game \in {"Sudoku", "KenKen", "MagicSquares", "NumberSequences"}

\* countdownMode defaults to true; KenKen passes countdownMode={false}
CountdownMode == game \notin {"KenKen", "NumberSequences"}

ControllerMounted == UsesController /\ ~showDifficultySelector

\* the isGameComplete prop: Number Sequences passes isGameComplete={isCorrect}
GameComplete == IF game = "NumberSequences" THEN isCorrect ELSE isGameComplete

\* KenKen and Number Sequences render an AIAssistant among the children
AIAssistantUsed == game \in {"KenKen", "NumberSequences"}

\* the hintsRemaining prop: hintsRemaining, or maxHints - hintsUsed
AIHintsProp ==
    IF game = "NumberSequences" THEN maxHints - hintsUsed ELSE hintsRemaining

\* the children start being rendered: useState(hintsRemaining) and
\* useState(false) of a new AIAssistant
AIMount ==
    IF AIAssistantUsed
    THEN /\ hintCount' = AIHintsProp
         /\ loadingHint' = FALSE
         /\ UNCHANGED aiPending
    ELSE UNCHANGED aiVars

\* the children stop being rendered: the AIAssistant is gone, the callbacks
\* it scheduled are not cancelled and their setters of its state do nothing
AIUnmount ==
    /\ aiPending' = [i \in DOMAIN aiPending |-> [aiPending[i] EXCEPT !.live = FALSE]]
    /\ hintCount' = 0
    /\ loadingHint' = FALSE

\* the children are rendered only while timerStarted, and take no clicks
\* while paused (pointer-events-none)
ChildrenClickable == ControllerMounted /\ timerStarted /\ ~isPaused

\* the state a GameController has when it mounts
ControllerMount ==
    /\ timerStarted' = FALSE
    /\ isPaused' = FALSE
    /\ timeIsUp' = FALSE

\* if (user && gameId) submitScore(newScore): the request to /api/results
\* is sent and not awaited
SubmitScore ==
    \E signedIn \in BOOLEAN :
        submission' = IF signedIn THEN "pending" ELSE submission

\* useEffect(() => { if (isGameComplete && timerStarted) ... }), run after a
\* handler that set isGameComplete
CompletionEffect ==
    /\ timerStarted' = FALSE
    /\ UNCHANGED <<isPaused, timeIsUp>>
    /\ AIUnmount

----------------------------------------------------------------------------
(* Sudoku *)

SudokuCells == Cells(9)

\* generateSudoku(difficulty): a solved grid with a difficulty-dependent set
\* of cells removed (more removed = harder)
SudokuSolved == [cell \in SudokuCells |->
    ((3 * (cell[1] % 3) + (cell[1] \div 3) + cell[2]) % 9) + 1]

SudokuRemovable == {<<0, 0>>, <<0, 1>>}

SudokuRemoved(d) ==
    IF d = "easy" THEN {{cell} : cell \in SudokuRemovable}
    ELSE {SudokuRemovable}

SudokuPuzzles ==
    [d \in Difficulties |->
        {[cell \in SudokuCells |-> IF cell \in R THEN NULL ELSE SudokuSolved[cell]] :
            R \in SudokuRemoved(d)}]

generateSudoku(d) == SudokuPuzzles[d]

SudokuUnits ==
    {{<<r, c>> : c \in 0 .. 8} : r \in 0 .. 8}
    \cup {{<<r, c>> : r \in 0 .. 8} : c \in 0 .. 8}
    \cup {{<<3 * br + i, 3 * bc + j>> : i \in 0 .. 2, j \in 0 .. 2} :
            br \in 0 .. 2, bc \in 0 .. 2}

\* checkSudokuValid(grid): every row, column and 3x3 block holds each of 1-9
\* exactly once, with no empty cell
checkSudokuValid(g) ==
    \A u \in SudokuUnits : \A v \in 1 .. 9 :
        Cardinality({cell \in u : g[cell] = v}) = 1

\* solveSudokuForHint(grid, row, col): the results the solver can return: the
\* value at (row, col) of a solved completion of the filled cells, or null
\* when the partial grid has none
solveSudokuForHint(g, row, col) ==
    LET empty == {cell \in SudokuCells : g[cell] = NULL}
        completions ==
            {h \in {[cell \in SudokuCells |->
                        IF cell \in empty THEN f[cell] ELSE g[cell]] :
                            f \in [empty -> 1 .. 9]} : checkSudokuValid(h)}
    IN  IF completions = {} THEN {NULL}
        ELSE {h[<<row, col>>] : h \in completions}

\* const newScore = (100 + (timeBonus / 10) * difficultyMultiplier) - hintPenalty
\* with currentTime.current = 0
SudokuScore(d, hints) ==
    (100 + (Max2(0, 600 - 0) \div 10) * DifficultyMultiplier(d)) - (3 - hints) * 15

Sudoku_generateNewPuzzle ==
    \E p \in generateSudoku(difficulty) :
        /\ grid' = p
        /\ originalGrid' = [cell \in SudokuCells |-> p[cell] # NULL]
        /\ hintsRemaining' = HintAllowance(difficulty)
        /\ isGameComplete' = FALSE
        /\ selectedCell' = NoCell
        /\ score' = 0
        /\ generated' = p
        /\ rounds' = rounds + 1
        /\ genDifficulty' = difficulty
        /\ delivered' = <<>>
        /\ UNCHANGED <<cages, size>>

\* a difficulty button, were GameInitializer rendered beside the puzzle too
GameInitializer_setDifficulty_WhilePlaying(d) ==
    /\ game \in {"Sudoku", "KenKen", "NumberSequences", "Cryptarithms"}
    /\ difficulty' = d
    /\ toast' = NoToast
    /\ UNCHANGED <<game, ctrlVars, showDifficultySelector, score, gridVars,
                   magicVars, puzzle, cryptVars, hectoVars, rounds,
                   genDifficulty, delivered, seqVars, aiVars, submission,
                   serverVars>>
\* GameInitializer: a difficulty button (Sudoku, KenKen, Number Sequences
\* and Cryptarithms render GameInitializer before a game starts)
GameInitializer_setDifficulty(d) ==
    /\ \/ game \in {"Sudoku", "KenKen", "NumberSequences"}
          /\ showDifficultySelector
       \/ game = "Cryptarithms" /\ ~gameStarted
    /\ difficulty' = d
    /\ toast' = NoToast
    /\ UNCHANGED <<game, ctrlVars, showDifficultySelector, score, gridVars,
                   magicVars, puzzle, cryptVars, hectoVars, rounds,
                   genDifficulty, delivered, seqVars, aiVars, submission, serverVars>>

\* GameInitializer: Start Game
Sudoku_handleGameStart ==
    /\ game = "Sudoku" /\ showDifficultySelector
    /\ rounds < MaxRounds
    /\ Sudoku_generateNewPuzzle
    /\ showDifficultySelector' = FALSE
    /\ ControllerMount
    /\ toast' = NoToast
    /\ UNCHANGED <<ctxVars, magicVars, puzzle, cryptVars, hectoVars, seqVars,
                   aiVars, submission, serverVars>>

Sudoku_selectCell(row, col) ==
    /\ game = "Sudoku" /\ ChildrenClickable /\ ~isGameComplete
    /\ selectedCell' = IF originalGrid[<<row, col>>] THEN selectedCell
                       ELSE <<row, col>>
    /\ toast' = NoToast
    /\ UNCHANGED <<ctxVars, ctrlVars, showDifficultySelector, score, grid,
                   originalGrid, cages, size, hintsRemaining, isGameComplete,
                   generated, magicVars, puzzle, cryptVars, hectoVars,
                   rounds,
                   genDifficulty, delivered, seqVars, aiVars, submission, serverVars>>

Sudoku_inputNumber(num) ==
    /\ game = "Sudoku" /\ ChildrenClickable /\ ~isGameComplete
    /\ grid' = IF selectedCell = NoCell \/ originalGrid[selectedCell] THEN grid
               ELSE [grid EXCEPT ![selectedCell] = num]
    /\ toast' = NoToast
    /\ UNCHANGED <<ctxVars, ctrlVars, showDifficultySelector, score,
                   originalGrid, cages, size, selectedCell, hintsRemaining,
                   isGameComplete, generated, magicVars, puzzle, cryptVars,
                   hectoVars, rounds,
                   genDifficulty, delivered, seqVars, aiVars, submission, serverVars>>

\* the Clear Cell button is disabled while no cell is selected
Sudoku_clearSelectedCell ==
    /\ game = "Sudoku" /\ ChildrenClickable /\ ~isGameComplete
    /\ selectedCell # NoCell
    /\ grid' = IF originalGrid[selectedCell] THEN grid
               ELSE [grid EXCEPT ![selectedCell] = NULL]
    /\ toast' = NoToast
    /\ UNCHANGED <<ctxVars, ctrlVars, showDifficultySelector, score,
                   originalGrid, cages, size, selectedCell, hintsRemaining,
                   isGameComplete, generated, magicVars, puzzle, cryptVars,
                   hectoVars, rounds,
                   genDifficulty, delivered, seqVars, aiVars, submission, serverVars>>

\* useHint, were a hint spent also when the solver returns null
Sudoku_useHint_SpendsOnNull ==
    /\ game = "Sudoku" /\ ChildrenClickable /\ ~isGameComplete
    /\ hintsRemaining > 0 /\ selectedCell # NoCell
    /\ IF originalGrid[selectedCell]
       THEN /\ toast' = Toast("Cannot use hint", "", 0, 0, 0)
            /\ UNCHANGED <<grid, hintsRemaining, score>>
       ELSE \E hintValue \in solveSudokuForHint(grid, selectedCell[1], selectedCell[2]) :
              IF hintValue # NULL
              THEN /\ grid' = [grid EXCEPT ![selectedCell] = hintValue]
                   /\ hintsRemaining' = hintsRemaining - 1
                   /\ score' = Max2(0, score - 15)
                   /\ toast' = NoToast
              ELSE /\ toast' = Toast("Hint unavailable", "", 0, 0, 0)
                   /\ hintsRemaining' = hintsRemaining - 1
                   /\ UNCHANGED <<grid, score>>
    /\ UNCHANGED <<ctxVars, ctrlVars, showDifficultySelector, originalGrid,
                   cages, size, selectedCell, isGameComplete, generated,
                   magicVars, puzzle, cryptVars, hectoVars, rounds,
                   genDifficulty, delivered, seqVars, aiVars, submission, serverVars>>
\* the Hint button is disabled while hintsRemaining <= 0 or no cell is selected
Sudoku_useHint ==
    /\ game = "Sudoku" /\ ChildrenClickable /\ ~isGameComplete
    /\ hintsRemaining > 0 /\ selectedCell # NoCell
    /\ IF originalGrid[selectedCell]
       THEN /\ toast' = Toast("Cannot use hint", "", 0, 0, 0)
            /\ UNCHANGED <<grid, hintsRemaining, score>>
       ELSE \E hintValue \in solveSudokuForHint(grid, selectedCell[1], selectedCell[2]) :
              IF hintValue # NULL
              THEN /\ grid' = [grid EXCEPT ![selectedCell] = hintValue]
                   /\ hintsRemaining' = hintsRemaining - 1
                   /\ score' = Max2(0, score - 15)
                   /\ toast' = NoToast
              ELSE /\ toast' = Toast("Hint unavailable", "", 0, 0, 0)
                   /\ UNCHANGED <<grid, hintsRemaining, score>>
    /\ UNCHANGED <<ctxVars, ctrlVars, showDifficultySelector, originalGrid,
                   cages, size, selectedCell, isGameComplete, generated,
                   magicVars, puzzle, cryptVars, hectoVars, rounds,
                   genDifficulty, delivered, seqVars, aiVars, submission, serverVars>>

Sudoku_verifySolution ==
    /\ game = "Sudoku" /\ ChildrenClickable /\ ~isGameComplete
    /\ IF \E cell \in SudokuCells : grid[cell] = NULL
       THEN /\ toast' = Toast("Incomplete", "", 0, 0, 0)
            /\ UNCHANGED <<score, isGameComplete, ctrlVars, aiVars, submission>>
       ELSE IF checkSudokuValid(grid)
       THEN /\ score' = SudokuScore(difficulty, hintsRemaining)
            /\ isGameComplete' = TRUE
            /\ toast' = Toast("Correct!", "", 0, SudokuScore(difficulty, hintsRemaining), 0)
            /\ CompletionEffect
            /\ SubmitScore
       ELSE /\ toast' = Toast("Incorrect", "", 0, 0, 0)
            /\ UNCHANGED <<score, isGameComplete, ctrlVars, aiVars, submission>>
    /\ UNCHANGED <<ctxVars, showDifficultySelector, grid, originalGrid, cages,
                   size, selectedCell, hintsRemaining, generated, magicVars,
                   puzzle, cryptVars, hectoVars, rounds,
                   genDifficulty, delivered, seqVars, serverVars>>

----------------------------------------------------------------------------
(* KenKen *)

\* difficulty === "easy" ? 4 : difficulty === "medium" ? 5 : 6
KenKenSize(d) == IF d = "easy" THEN 4 ELSE IF d = "medium" THEN 5 ELSE 6

\* generateKenKen(size, difficulty): a Latin-square base grid ...
KenKenLatin(n) == [cell \in Cells(n) |-> ((cell[1] + cell[2]) % n) + 1]

\* ... partitioned row by row into cages of 1-3 adjacent cells, as
\* <<first column, length>> ...
KenKenChunks(n, r) ==
    LET pairsFrom(start) ==
            [k \in 1 .. ((n - start) \div 2) |-> <<start + 2 * (k - 1), 2>>]
        rest(start) ==
            IF (n - start) % 2 = 1 THEN <<<<n - 1, 1>>>> ELSE <<>>
    IN  IF r % 2 = 0 THEN pairsFrom(0) \o rest(0)
        ELSE <<<<0, 3>>>> \o pairsFrom(3) \o rest(3)

RECURSIVE InsertDesc(_, _)
InsertDesc(x, s) ==
    IF s = <<>> THEN <<x>>
    ELSE IF x > Head(s) THEN <<x>> \o s
    ELSE <<Head(s)>> \o InsertDesc(x, Tail(s))

\* values.sort((a, b) => b - a)
RECURSIVE SortDesc(_)
SortDesc(s) == IF s = <<>> THEN <<>> ELSE InsertDesc(Head(s), SortDesc(Tail(s)))

\* ... each with an operation whose result on the true values is an integer
\* target >= 1
KenKenCageAt(n, r, chunk) ==
    LET cells == [i \in 1 .. chunk[2] |-> <<r, chunk[1] + i - 1>>]
        vals == [i \in 1 .. chunk[2] |-> KenKenLatin(n)[cells[i]]]
        sorted == SortDesc(vals)
        k == (r + chunk[1]) % 3
        op == IF chunk[2] = 1 THEN "="
              ELSE IF k = 0 /\ Head(sorted) % SeqProd(Tail(sorted)) = 0 THEN "/"
              ELSE IF k = 1 /\ Head(sorted) - SeqSum(Tail(sorted)) >= 1 THEN "-"
              ELSE IF k = 1 THEN "+"
              ELSE "*"
        target == CASE op = "=" -> vals[1]
                    [] op = "/" -> Head(sorted) \div SeqProd(Tail(sorted))
                    [] op = "-" -> Head(sorted) - SeqSum(Tail(sorted))
                    [] op = "+" -> SeqSum(vals)
                    [] op = "*" -> SeqProd(vals)
    IN  [cells |-> cells, target |-> target, operation |-> op]

RECURSIVE KenKenRowsCages(_, _)
KenKenRowsCages(n, r) ==
    IF r >= n THEN <<>>
    ELSE [i \in 1 .. Len(KenKenChunks(n, r)) |->
              KenKenCageAt(n, r, KenKenChunks(n, r)[i])]
         \o KenKenRowsCages(n, r + 1)

KenKenSizes == {KenKenSize(d) : d \in Difficulties}

KenKenCagesOf ==
    [n \in KenKenSizes |->
        LET rows == KenKenRowsCages(n, 0)
        IN  [i \in 1 .. Len(rows) |->
                [id |-> i, cells |-> rows[i].cells, target |-> rows[i].target,
                 operation |-> rows[i].operation]]]

KenKenCages(n) == KenKenCagesOf[n]

KenKenCageIdOf(n, cell) ==
    CHOOSE i \in 1 .. Len(KenKenCages(n)) : cell \in SeqRange(KenKenCages(n)[i].cells)

\* the cells the generator leaves to the player
KenKenOpen == {<<0, 1>>, <<1, 1>>}

KenKenPuzzles ==
    [n \in KenKenSizes |->
        [grid |-> [cell \in Cells(n) |->
                      [value |-> IF cell \in KenKenOpen THEN NULL
                                 ELSE KenKenLatin(n)[cell],
                       cageId |-> KenKenCageIdOf(n, cell),
                       isOriginal |-> cell \notin KenKenOpen]],
         cages |-> KenKenCages(n)]]

generateKenKen(n, d) == KenKenPuzzles[n]

\* the first duplicate the row/column scan meets: for each i, for each j, row
\* i at column j, then column i at row j; <<>> when there is none
KenKenFirstDuplicate(g, n) ==
    LET Dup(k) ==
            LET i == k \div (2 * n)
                j == (k % (2 * n)) \div 2
            IN  IF k % 2 = 0
                THEN \E jj \in 0 .. j - 1 : g[<<i, jj>>].value = g[<<i, j>>].value
                ELSE \E jj \in 0 .. j - 1 : g[<<jj, i>>].value = g[<<j, i>>].value
        hits == {k \in 0 .. 2 * n * n - 1 : Dup(k)}
    IN  IF hits = {} THEN <<>>
        ELSE LET k == CHOOSE x \in hits : \A y \in hits : x <= y
                 i == k \div (2 * n)
                 j == (k % (2 * n)) \div 2
             IN  IF k % 2 = 0 THEN <<"Row", i + 1, g[<<i, j>>].value>>
                 ELSE <<"Column", i + 1, g[<<j, i>>].value>>

RECURSIVE GCD(_, _)
GCD(a, b) == IF b = 0 THEN a ELSE GCD(b, a % b)

\* a JavaScript number that is a quotient of small integers, in lowest terms
Fraction(num, den) == <<num \div GCD(num, den), den \div GCD(num, den)>>

\* values.reduce((diff, val, idx) => idx === 0 ? val : diff - val, 0)
RECURSIVE ReduceDiff(_, _, _)
ReduceDiff(acc, s, idx) ==
    IF s = <<>> THEN acc
    ELSE ReduceDiff(IF idx = 0 THEN Head(s) ELSE acc - Head(s), Tail(s), idx + 1)

\* values.reduce((quotient, val, idx) => idx === 0 ? val : quotient / val, 1)
RECURSIVE ReduceQuot(_, _, _)
ReduceQuot(acc, s, idx) ==
    IF s = <<>> THEN acc
    ELSE ReduceQuot(IF idx = 0 THEN <<Head(s), 1>>
                    ELSE Fraction(acc[1], acc[2] * Head(s)), Tail(s), idx + 1)

\* the switch on cage.operation without values.sort, a faulty variant: with
\* it - and / take the values in cell order
KenKenCageResult_Unsorted(g, cage) ==
    LET values == [i \in 1 .. Len(cage.cells) |-> g[cage.cells[i]].value]
    IN  CASE cage.operation = "+" -> <<SeqSum(values), 1>>
          [] cage.operation = "-" -> <<ReduceDiff(0, values, 0), 1>>
          [] cage.operation = "*" -> <<SeqProd(values), 1>>
          [] cage.operation = "/" -> ReduceQuot(<<1, 1>>, values, 0)
          [] cage.operation = "=" -> <<values[1], 1>>
          [] OTHER -> <<0, 1>>

\* the switch on cage.operation in checkSolution
KenKenCageResult(g, cage) ==
    LET values == [i \in 1 .. Len(cage.cells) |-> g[cage.cells[i]].value]
    IN  CASE cage.operation = "+" -> <<SeqSum(values), 1>>
          [] cage.operation = "-" -> <<ReduceDiff(0, SortDesc(values), 0), 1>>
          [] cage.operation = "*" -> <<SeqProd(values), 1>>
          [] cage.operation = "/" -> ReduceQuot(<<1, 1>>, SortDesc(values), 0)
          [] cage.operation = "=" -> <<values[1], 1>>
          [] OTHER -> <<0, 1>>

\* the first cage, in the order of the cages array, with result !== cage.target
KenKenFirstBadCage(g, cs) ==
    LET bad == {i \in 1 .. Len(cs) : KenKenCageResult(g, cs[i]) # <<cs[i].target, 1>>}
    IN  IF bad = {} THEN 0 ELSE CHOOSE i \in bad : \A j \in bad : i <= j

\* const newScore = (150 + timeBonus * difficultyMultiplier) - hintPenalty
KenKenScore(d, hints) == (150 + 150 * DifficultyMultiplier(d)) - (3 - hints) * 15

KenKen_generateNewPuzzle ==
    LET p == generateKenKen(KenKenSize(difficulty), difficulty)
    IN  /\ size' = KenKenSize(difficulty)
        /\ grid' = p.grid
        /\ cages' = p.cages
        /\ hintsRemaining' = HintAllowance(difficulty)
        /\ isGameComplete' = FALSE
        /\ selectedCell' = NoCell
        /\ score' = 0
        /\ hint' = <<>>
        /\ generated' = p.grid
        /\ rounds' = rounds + 1
        /\ genDifficulty' = difficulty
        /\ delivered' = <<>>
        /\ UNCHANGED originalGrid

KenKen_handleGameStart ==
    /\ game = "KenKen" /\ showDifficultySelector
    /\ rounds < MaxRounds
    /\ KenKen_generateNewPuzzle
    /\ showDifficultySelector' = FALSE
    /\ ControllerMount
    /\ toast' = NoToast
    /\ UNCHANGED <<ctxVars, magicVars, puzzle, cryptVars, expression,
                   usedNumberIndexes, seqVars, aiVars, submission, serverVars>>

\* selectCell without the isOriginal test, a faulty variant: with it
\* placeNumber overwrites original cells
KenKen_selectCell_Unguarded(row, col) ==
    /\ game = "KenKen" /\ ChildrenClickable /\ ~isGameComplete
    /\ selectedCell' = <<row, col>>
    /\ toast' = NoToast
    /\ UNCHANGED <<ctxVars, ctrlVars, showDifficultySelector, score, grid,
                   originalGrid, cages, size, hintsRemaining, isGameComplete,
                   generated, magicVars, puzzle, cryptVars, hectoVars,
                   rounds,
                   genDifficulty, delivered, seqVars, aiVars, submission, serverVars>>

KenKen_selectCell(row, col) ==
    /\ game = "KenKen" /\ ChildrenClickable /\ ~isGameComplete
    /\ selectedCell' = IF grid[<<row, col>>].isOriginal THEN selectedCell
                       ELSE <<row, col>>
    /\ toast' = NoToast
    /\ UNCHANGED <<ctxVars, ctrlVars, showDifficultySelector, score, grid,
                   originalGrid, cages, size, hintsRemaining, isGameComplete,
                   generated, magicVars, puzzle, cryptVars, hectoVars,
                   rounds,
                   genDifficulty, delivered, seqVars, aiVars, submission, serverVars>>

KenKen_placeNumber(num) ==
    /\ game = "KenKen" /\ ChildrenClickable /\ ~isGameComplete
    /\ grid' = IF selectedCell = NoCell THEN grid
               ELSE [grid EXCEPT ![selectedCell].value = num]
    /\ toast' = NoToast
    /\ UNCHANGED <<ctxVars, ctrlVars, showDifficultySelector, score,
                   originalGrid, cages, size, selectedCell, hintsRemaining,
                   isGameComplete, generated, magicVars, puzzle, cryptVars,
                   hectoVars, rounds,
                   genDifficulty, delivered, seqVars, aiVars, submission, serverVars>>

\* resetGrid: the body shared by the Clear button and GameController's onReset
KenKen_resetGridBody ==
    /\ grid' = [cell \in DOMAIN grid |->
                   IF ~grid[cell].isOriginal
                   THEN [grid[cell] EXCEPT !.value = NULL] ELSE grid[cell]]
    /\ selectedCell' = NoCell

KenKen_resetGrid ==
    /\ game = "KenKen" /\ ChildrenClickable /\ ~isGameComplete
    /\ KenKen_resetGridBody
    /\ toast' = NoToast
    /\ UNCHANGED <<ctxVars, ctrlVars, showDifficultySelector, score,
                   originalGrid, cages, size, hintsRemaining, isGameComplete,
                   generated, magicVars, puzzle, cryptVars, hectoVars,
                   rounds,
                   genDifficulty, delivered, seqVars, aiVars, submission, serverVars>>

\* useHint without the sort of cagesWithProgress, a faulty variant: with it
\* the hint goes to the first partly filled cage, not the fullest one
KenKenHintTarget_FirstCage(g, cs, n, sel) ==
    LET filled(cage) ==
            Cardinality({i \in 1 .. Len(cage.cells) : g[cage.cells[i]].value # NULL})
        isFree(cell) == g[cell].value = NULL /\ ~g[cell].isOriginal
        progress == {i \in 1 .. Len(cs) :
                        filled(cs[i]) > 0 /\ filled(cs[i]) < Len(cs[i].cells)}
        targetCage == cs[CHOOSE i \in progress : \A j \in progress : i <= j]
        inCage == {i \in 1 .. Len(targetCage.cells) : isFree(targetCage.cells[i])}
        inGrid == {k \in 0 .. n * n - 1 : isFree(<<k \div n, k % n>>)}
    IN  IF sel # NoCell /\ ~g[sel].isOriginal /\ g[sel].value = NULL THEN sel
        ELSE IF progress # {}
        THEN IF inCage = {} THEN NoCell
             ELSE targetCage.cells[CHOOSE i \in inCage : \A j \in inCage : i <= j]
        ELSE IF inGrid = {} THEN NoCell
             ELSE LET k == CHOOSE x \in inGrid : \A y \in inGrid : x <= y
                  IN  <<k \div n, k % n>>

\* useHint: the cell the hint goes to, NoCell when there is none
KenKenHintTarget(g, cs, n, sel) ==
    LET filled(cage) ==
            Cardinality({i \in 1 .. Len(cage.cells) : g[cage.cells[i]].value # NULL})
        isFree(cell) == g[cell].value = NULL /\ ~g[cell].isOriginal
        progress == {i \in 1 .. Len(cs) :
                        filled(cs[i]) > 0 /\ filled(cs[i]) < Len(cs[i].cells)}
        \* the stable sort by filled cells, descending, then [0]
        targetCage ==
            cs[CHOOSE i \in progress :
                  \A j \in progress :
                      \/ filled(cs[i]) > filled(cs[j])
                      \/ filled(cs[i]) = filled(cs[j]) /\ i <= j]
        inCage == {i \in 1 .. Len(targetCage.cells) : isFree(targetCage.cells[i])}
        inGrid == {k \in 0 .. n * n - 1 : isFree(<<k \div n, k % n>>)}
    IN  IF sel # NoCell /\ ~g[sel].isOriginal /\ g[sel].value = NULL THEN sel
        ELSE IF progress # {}
        THEN IF inCage = {} THEN NoCell
             ELSE targetCage.cells[CHOOSE i \in inCage : \A j \in inCage : i <= j]
        ELSE IF inGrid = {} THEN NoCell
             ELSE LET k == CHOOSE x \in inGrid : \A y \in inGrid : x <= y
                  IN  <<k \div n, k % n>>

\* useHint with usedInCol left out of the test, a faulty variant: with it
\* the hint may repeat a value of the column
KenKenHintValue_RowOnly(g, n, row, col) ==
    LET usedInRow == {g[<<row, i>>].value : i \in 0 .. n - 1} \ {NULL}
        ok == {num \in 1 .. n : num \notin usedInRow}
    IN  IF ok = {} THEN NULL ELSE CHOOSE num \in ok : \A m \in ok : num <= m

\* useHint: the value placed at (row, col), NULL when the loop finds none
KenKenHintValue(g, n, row, col) ==
    LET usedInRow == {g[<<row, i>>].value : i \in 0 .. n - 1} \ {NULL}
        usedInCol == {g[<<i, col>>].value : i \in 0 .. n - 1} \ {NULL}
        ok == {num \in 1 .. n : num \notin usedInRow /\ num \notin usedInCol}
    IN  IF ok = {} THEN NULL ELSE CHOOSE num \in ok : \A m \in ok : num <= m

\* the Hint button is disabled while hintsRemaining <= 0
KenKen_useHint ==
    /\ game = "KenKen" /\ ChildrenClickable /\ ~isGameComplete
    /\ hintsRemaining > 0
    /\ LET targetCell == KenKenHintTarget(grid, cages, size, selectedCell)
       IN  IF targetCell = NoCell
           THEN /\ toast' = Toast("No empty cells", "", 0, 0, 0)
                /\ UNCHANGED <<grid, hintsRemaining, score, delivered>>
           ELSE LET num == KenKenHintValue(grid, size, targetCell[1], targetCell[2])
                IN  IF num # NULL
                    THEN /\ grid' = [grid EXCEPT ![targetCell].value = num]
                         /\ hintsRemaining' = hintsRemaining - 1
                         /\ score' = Max2(0, score - 15)
                         /\ toast' = Toast("Hint used", "", targetCell[1] + 1,
                                           num, targetCell[2] + 1)
                         /\ delivered' = Append(delivered,
                                                Delivery("button", <<"cell">>))
                    ELSE /\ toast' = NoToast
                         /\ UNCHANGED <<grid, hintsRemaining, score, delivered>>
    /\ UNCHANGED <<ctxVars, ctrlVars, showDifficultySelector, originalGrid,
                   cages, size, selectedCell, isGameComplete, generated,
                   magicVars, puzzle, cryptVars, hectoVars, rounds,
                   genDifficulty, seqVars, aiVars, submission, serverVars>>

\* checkSolution: the toast it ends with
KenKenVerdict(g, cs, n, d, hints) ==
    IF \E cell \in Cells(n) : g[cell].value = NULL
    THEN Toast("Incomplete", "", 0, 0, 0)
    ELSE IF KenKenFirstDuplicate(g, n) # <<>>
    THEN Toast("Invalid Solution", KenKenFirstDuplicate(g, n)[1],
               KenKenFirstDuplicate(g, n)[2], KenKenFirstDuplicate(g, n)[3], 0)
    ELSE IF KenKenFirstBadCage(g, cs) # 0
    THEN LET cage == cs[KenKenFirstBadCage(g, cs)]
         IN  Toast("Invalid Cage", cage.operation, cage.target,
                   KenKenCageResult(g, cage)[1], KenKenCageResult(g, cage)[2])
    ELSE Toast("Correct!", "", 0, KenKenScore(d, hints), 0)

\* checkSolution, were it to reverse the cells of the cages it reads
KenKen_checkSolution_ReordersCages ==
    /\ game = "KenKen" /\ ChildrenClickable /\ ~isGameComplete
    /\ toast' = KenKenVerdict(grid, cages, size, difficulty, hintsRemaining)
    /\ IF toast'.title = "Correct!"
       THEN /\ score' = score + KenKenScore(difficulty, hintsRemaining)
            /\ isGameComplete' = TRUE
            /\ CompletionEffect
            /\ SubmitScore
       ELSE UNCHANGED <<score, isGameComplete, ctrlVars, aiVars, submission>>
    /\ cages' = [i \in DOMAIN cages |->
                    [cages[i] EXCEPT !.cells =
                        [k \in DOMAIN cages[i].cells |->
                            cages[i].cells[Len(cages[i].cells) + 1 - k]]]]
    /\ UNCHANGED <<ctxVars, showDifficultySelector, grid, originalGrid,
                   size, selectedCell, hintsRemaining, generated, magicVars,
                   puzzle, cryptVars, hectoVars, rounds,
                   genDifficulty, delivered, seqVars, serverVars>>
KenKen_checkSolution ==
    /\ game = "KenKen" /\ ChildrenClickable /\ ~isGameComplete
    /\ toast' = KenKenVerdict(grid, cages, size, difficulty, hintsRemaining)
    /\ IF toast'.title = "Correct!"
       THEN /\ score' = score + KenKenScore(difficulty, hintsRemaining)
            /\ isGameComplete' = TRUE
            /\ CompletionEffect
            /\ SubmitScore
       ELSE UNCHANGED <<score, isGameComplete, ctrlVars, aiVars, submission>>
    /\ UNCHANGED <<ctxVars, showDifficultySelector, grid, originalGrid, cages,
                   size, selectedCell, hintsRemaining, generated, magicVars,
                   puzzle, cryptVars, hectoVars, rounds,
                   genDifficulty, delivered, seqVars, serverVars>>

----------------------------------------------------------------------------
(* GameController handlers *)

\* handleReset and handleShowDifficultySelector: stopTimer, resetTimer and
\* the three setters
ControllerReset ==
    /\ timerStarted' = FALSE
    /\ isPaused' = FALSE
    /\ timeIsUp' = FALSE

\* the Start Timer button is rendered while !isGameComplete && !timerStarted
GameController_handleStartTimer ==
    /\ ControllerMounted /\ ~GameComplete /\ ~timerStarted
    /\ timerStarted' = TRUE
    /\ AIMount
    /\ toast' = NoToast
    /\ UNCHANGED <<ctxVars, isPaused, timeIsUp, showDifficultySelector, score,
                   gridVars, magicVars, puzzle, cryptVars, hectoVars, rounds,
                   genDifficulty, delivered, seqVars, submission, serverVars>>

\* the Pause/Resume button is rendered while !isGameComplete && timerStarted
GameController_togglePause ==
    /\ ControllerMounted /\ ~GameComplete /\ timerStarted
    /\ isPaused' = ~isPaused
    /\ toast' = NoToast
    /\ UNCHANGED <<ctxVars, timerStarted, timeIsUp, showDifficultySelector,
                   score, gridVars, magicVars, puzzle, cryptVars, hectoVars,
                   rounds,
                   genDifficulty, delivered, seqVars, aiVars, submission, serverVars>>

\* onTimeUp of the countdown timer: it runs only while started and not paused
GameController_handleTimeUp ==
    /\ ControllerMounted /\ CountdownMode /\ timerStarted /\ ~isPaused
    /\ IF ~GameComplete
       THEN timeIsUp' = TRUE /\ timerStarted' = FALSE
       ELSE UNCHANGED <<timeIsUp, timerStarted>>
    /\ toast' = NoToast
    /\ UNCHANGED <<ctxVars, isPaused, showDifficultySelector, score, gridVars,
                   magicVars, puzzle, cryptVars, hectoVars, rounds,
                   genDifficulty, delivered, seqVars, aiVars, submission, serverVars>>

\* Change Difficulty / Play New Game: every game passes a callback that sets
\* showDifficultySelector
GameController_handleShowDifficultySelector ==
    /\ ControllerMounted
    /\ ControllerReset
    /\ showDifficultySelector' = TRUE
    /\ AIUnmount
    /\ toast' = NoToast
    /\ UNCHANGED <<ctxVars, score, gridVars, magicVars, puzzle, cryptVars,
                   hectoVars, rounds,
                   genDifficulty, delivered, seqVars, submission, serverVars>>

\* Reset / Try Again with Sudoku's onReset = handleReset = generateNewPuzzle
Sudoku_handleReset ==
    /\ game = "Sudoku" /\ ControllerMounted /\ ~isGameComplete
    /\ rounds < MaxRounds
    /\ ControllerReset
    /\ Sudoku_generateNewPuzzle
    /\ toast' = NoToast
    /\ UNCHANGED <<ctxVars, showDifficultySelector, magicVars, puzzle,
                   cryptVars, hectoVars, seqVars, aiVars, submission, serverVars>>

\* Reset with KenKen's onReset = handleReset = resetGrid
KenKen_handleReset ==
    /\ game = "KenKen" /\ ControllerMounted /\ ~isGameComplete
    /\ ControllerReset
    /\ KenKen_resetGridBody
    /\ AIUnmount
    /\ toast' = NoToast
    /\ UNCHANGED <<ctxVars, showDifficultySelector, score, originalGrid, cages,
                   size, hintsRemaining, isGameComplete, generated, magicVars,
                   puzzle, cryptVars, hectoVars, rounds,
                   genDifficulty, delivered, seqVars, submission, serverVars>>

----------------------------------------------------------------------------
(* Magic Squares *)

\* difficulty === "easy" ? 3 : difficulty === "medium" ? 4 : 5
MagicSize(d) == IF d = "easy" THEN 3 ELSE IF d = "medium" THEN 4 ELSE 5

\* the complete square: the Siamese construction for odd order, the
\* diagonal-complement construction for order 4
MagicComplete(n) ==
    [cell \in Cells(n) |->
        IF n = 4
        THEN IF cell[1] = cell[2] \/ cell[1] + cell[2] = 3
             THEN 17 - (4 * cell[1] + cell[2] + 1)
             ELSE 4 * cell[1] + cell[2] + 1
        ELSE n * ((cell[1] + cell[2] + 1 + (n \div 2)) % n)
             + ((cell[1] + 2 * cell[2] + 1) % n) + 1]

\* the cells the generator leaves for the player
MagicHidden(n) ==
    IF n = 3 THEN {<<0, 0>>, <<2, 2>>}
    ELSE IF n = 4 THEN {<<1, 1>>, <<1, 2>>}
    ELSE {<<0, 2>>, <<4, 2>>}

\* the orders a pool of numbers can be listed in
Orderings(S) ==
    {q \in [1 .. Cardinality(S) -> S] : \A v \in S : \E i \in DOMAIN q : q[i] = v}

\* generateMagicSquare(size, difficulty): the puzzle with the hidden cells
\* null, the magic constant, and the hidden numbers as the pool
MagicSizes == {MagicSize(d) : d \in Difficulties}

MagicPuzzles ==
    [n \in MagicSizes |->
        {[puzzle |-> [cell \in Cells(n) |->
                         IF cell \in MagicHidden(n) THEN NULL
                         ELSE MagicComplete(n)[cell]],
          targetSum |-> (n * (n * n + 1)) \div 2,
          availableNumbers |-> pool] :
            pool \in Orderings({MagicComplete(n)[cell] : cell \in MagicHidden(n)})}]

generateMagicSquare(n, d) == MagicPuzzles[n]

\* the cells the player clicks in the model
MagicClicked(n) == MagicHidden(n) \cup {<<0, n - 1>>}

MagicSquares_initializePuzzle(d) ==
    \E p \in generateMagicSquare(MagicSize(d), d) :
        /\ size' = MagicSize(d)
        /\ grid' = p.puzzle
        /\ targetSum' = p.targetSum
        /\ availableNumbers' = p.availableNumbers
        /\ usedNumbers' = <<>>
        /\ hintsRemaining' = HintAllowance(d)
        /\ isGameComplete' = FALSE
        /\ selectedCell' = NoCell
        /\ generated' = p.puzzle
        /\ rounds' = rounds + 1
        /\ genDifficulty' = d
        /\ delivered' = <<>>

\* DifficultySelector's Select button: handleDifficultyChange, and the
\* effect on [difficulty] when the difficulty changed
MagicSquares_handleDifficultyChange(newDifficulty) ==
    /\ game = "MagicSquares" /\ showDifficultySelector
    /\ difficulty' = newDifficulty
    /\ showDifficultySelector' = FALSE
    /\ ControllerMount
    /\ IF newDifficulty # difficulty
       THEN rounds < MaxRounds /\ MagicSquares_initializePuzzle(newDifficulty)
       ELSE UNCHANGED <<size, grid, targetSum, availableNumbers, usedNumbers,
                        hintsRemaining, isGameComplete, selectedCell, generated,
                        rounds, genDifficulty, delivered>>
    /\ toast' = NoToast
    /\ UNCHANGED <<game, score, originalGrid, cages, puzzle, cryptVars,
                   hectoVars, seqVars, aiVars, submission, serverVars>>

\* Reset / Try Again with onReset = initializePuzzle
MagicSquares_handleReset ==
    /\ game = "MagicSquares" /\ ControllerMounted /\ ~isGameComplete
    /\ rounds < MaxRounds
    /\ ControllerReset
    /\ MagicSquares_initializePuzzle(difficulty)
    /\ toast' = NoToast
    /\ UNCHANGED <<ctxVars, showDifficultySelector, score, originalGrid, cages,
                   puzzle, cryptVars, hectoVars, seqVars, aiVars, submission, serverVars>>

MagicSquares_selectCell(row, col) ==
    /\ game = "MagicSquares" /\ ChildrenClickable /\ ~isGameComplete
    /\ selectedCell' = IF grid[<<row, col>>] # NULL THEN selectedCell
                       ELSE <<row, col>>
    /\ toast' = NoToast
    /\ UNCHANGED <<ctxVars, ctrlVars, showDifficultySelector, score, grid,
                   originalGrid, cages, size, hintsRemaining, isGameComplete,
                   generated, magicVars, puzzle, cryptVars, hectoVars, rounds,
                   genDifficulty, delivered, seqVars, aiVars, submission, serverVars>>

\* a number button is disabled while the number is used or no cell is
\* selected
MagicSquares_placeNumber(num) ==
    /\ game = "MagicSquares" /\ ChildrenClickable /\ ~isGameComplete
    /\ num \in SeqRange(availableNumbers)
    /\ num \notin SeqRange(usedNumbers) /\ selectedCell # NoCell
    /\ IF num \in SeqRange(usedNumbers)
       THEN /\ toast' = Toast("Number already used", "", 0, 0, 0)
            /\ UNCHANGED <<grid, usedNumbers, selectedCell>>
       ELSE /\ grid' = [grid EXCEPT ![selectedCell] = num]
            /\ usedNumbers' = Append(usedNumbers, num)
            /\ selectedCell' = NoCell
            /\ toast' = NoToast
    /\ UNCHANGED <<ctxVars, ctrlVars, showDifficultySelector, score,
                   originalGrid, cages, size, hintsRemaining, isGameComplete,
                   generated, targetSum, availableNumbers, puzzle, cryptVars,
                   hectoVars, rounds,
                   genDifficulty, delivered, seqVars, aiVars, submission, serverVars>>

\* resetGrid: Array(size).fill(null).map(() => Array(size).fill(null))
MagicSquares_resetGrid ==
    /\ game = "MagicSquares" /\ ChildrenClickable /\ ~isGameComplete
    /\ grid' = [cell \in Cells(size) |-> NULL]
    /\ usedNumbers' = <<>>
    /\ selectedCell' = NoCell
    /\ toast' = NoToast
    /\ UNCHANGED <<ctxVars, ctrlVars, showDifficultySelector, score,
                   originalGrid, cages, size, hintsRemaining, isGameComplete,
                   generated, targetSum, availableNumbers, puzzle, cryptVars,
                   hectoVars, rounds,
                   genDifficulty, delivered, seqVars, aiVars, submission, serverVars>>

\* useHint: the first empty cell, in row-major order, with the most filled
\* cells in its row and column; NoCell when no cell is empty
MagicBestCell(g, n) ==
    LET empty == {k \in 0 .. n * n - 1 : g[<<k \div n, k % n>>] = NULL}
        cellScore(k) ==
            Cardinality({j \in 0 .. n - 1 : g[<<k \div n, j>>] # NULL})
            + Cardinality({i \in 0 .. n - 1 : g[<<i, k % n>>] # NULL})
    IN  IF empty = {} THEN NoCell
        ELSE LET k == CHOOSE x \in empty :
                        \A y \in empty :
                            \/ cellScore(x) > cellScore(y)
                            \/ cellScore(x) = cellScore(y) /\ x <= y
             IN  <<k \div n, k % n>>

\* availableNumbers.find(num => !usedNumbers.includes(num)), NULL for undefined
MagicFirstUnused(avail, used) ==
    LET free == {i \in 1 .. Len(avail) : avail[i] \notin SeqRange(used)}
    IN  IF free = {} THEN NULL
        ELSE avail[CHOOSE i \in free : \A j \in free : i <= j]

\* the Hint button is disabled while hintsRemaining <= 0
MagicSquares_useHint ==
    /\ game = "MagicSquares" /\ ChildrenClickable /\ ~isGameComplete
    /\ hintsRemaining > 0
    /\ LET bestCell == MagicBestCell(grid, size)
           availableNum == MagicFirstUnused(availableNumbers, usedNumbers)
       IN  IF bestCell = NoCell
           THEN /\ toast' = Toast("No empty cells", "", 0, 0, 0)
                /\ UNCHANGED <<grid, usedNumbers, hintsRemaining, score>>
           ELSE IF availableNum # NULL
           THEN /\ grid' = [grid EXCEPT ![bestCell] = availableNum]
                /\ usedNumbers' = Append(usedNumbers, availableNum)
                /\ hintsRemaining' = hintsRemaining - 1
                /\ score' = Max2(0, score - 15)
                /\ toast' = Toast("Hint used", "", bestCell[1] + 1,
                                  availableNum, bestCell[2] + 1)
           ELSE /\ toast' = NoToast
                /\ UNCHANGED <<grid, usedNumbers, hintsRemaining, score>>
    /\ UNCHANGED <<ctxVars, ctrlVars, showDifficultySelector, originalGrid,
                   cages, size, selectedCell, isGameComplete, generated,
                   targetSum, availableNumbers, puzzle, cryptVars, hectoVars,
                   rounds,
                   genDifficulty, delivered, seqVars, aiVars, submission, serverVars>>

\* checkSolution: the sum of a line of cells
MagicLineSum(g, line) == SeqSum([i \in 1 .. Len(line) |-> g[line[i]]])

MagicRow(n, i) == [k \in 1 .. n |-> <<i, k - 1>>]
\* a column check that reads the row of the same index, a faulty variant:
\* with it no column sum is tested
MagicColumn_AsRow(n, j) == [k \in 1 .. n |-> <<j, k - 1>>]
MagicColumn(n, j) == [k \in 1 .. n |-> <<k - 1, j>>]
MagicMainDiagonal(n) == [k \in 1 .. n |-> <<k - 1, k - 1>>]
MagicOtherDiagonal(n) == [k \in 1 .. n |-> <<k - 1, n - k>>]

\* const newScore = (100 + (timeBonus / 10) * difficultyMultiplier) - hintPenalty
\* with currentTime = 0, the argument of the only call
MagicScore(d, hints) ==
    (100 + (Max2(0, 600 - 0) \div 10) * DifficultyMultiplier(d)) - (3 - hints) * 15

\* checkSolution: the toast it ends with
MagicVerdict(g, n, target, d, hints) ==
    LET badRows == {i \in 0 .. n - 1 : MagicLineSum(g, MagicRow(n, i)) # target}
        badCols == {j \in 0 .. n - 1 : MagicLineSum(g, MagicColumn(n, j)) # target}
        first(S) == CHOOSE x \in S : \A y \in S : x <= y
    IN  IF \E cell \in Cells(n) : g[cell] = NULL
        THEN Toast("Incomplete", "", 0, 0, 0)
        ELSE IF badRows # {}
        THEN Toast("Incorrect", "Row", first(badRows) + 1,
                   MagicLineSum(g, MagicRow(n, first(badRows))), target)
        ELSE IF badCols # {}
        THEN Toast("Incorrect", "Column", first(badCols) + 1,
                   MagicLineSum(g, MagicColumn(n, first(badCols))), target)
        ELSE IF MagicLineSum(g, MagicMainDiagonal(n)) # target
        THEN Toast("Incorrect", "Main diagonal", 0,
                   MagicLineSum(g, MagicMainDiagonal(n)), target)
        ELSE IF MagicLineSum(g, MagicOtherDiagonal(n)) # target
        THEN Toast("Incorrect", "Other diagonal", 0,
                   MagicLineSum(g, MagicOtherDiagonal(n)), target)
        ELSE Toast("Correct!", "", 0, MagicScore(d, hints), 0)

MagicSquares_checkSolution ==
    /\ game = "MagicSquares" /\ ChildrenClickable /\ ~isGameComplete
    /\ toast' = MagicVerdict(grid, size, targetSum, difficulty, hintsRemaining)
    /\ IF toast'.title = "Correct!"
       THEN /\ score' = score + MagicScore(difficulty, hintsRemaining)
            /\ isGameComplete' = TRUE
            /\ CompletionEffect
            /\ SubmitScore
       ELSE UNCHANGED <<score, isGameComplete, ctrlVars, aiVars, submission>>
    /\ UNCHANGED <<ctxVars, showDifficultySelector, grid, originalGrid, cages,
                   size, selectedCell, hintsRemaining, generated, magicVars,
                   puzzle, cryptVars, hectoVars, rounds,
                   genDifficulty, delivered, seqVars, serverVars>>

----------------------------------------------------------------------------
(* Cryptarithms *)

Alphabet == <<"A", "B", "C", "D">>

\* the value before a puzzle is generated (useState(null))
NoPuzzle == [equation |-> <<>>, solution |-> <<>>]

\* the value of a word under an assignment of digits to letters
RECURSIVE WordValue(_, _)
WordValue(word, sol) ==
    IF word = <<>> THEN 0
    ELSE 10 * WordValue(SubSeq(word, 1, Len(word) - 1), sol) + sol[word[Len(word)]]

\* the letters of an equation <<word, word, word>>, read word + word = word
EquationLetters(eq) == UNION {SeqRange(eq[i]) : i \in DOMAIN eq}

\* an assignment solves an equation: distinct digits, no leading zero, and a
\* true sum
Solves(eq, sol) ==
    /\ \A l \in EquationLetters(eq) : sol[l] \in 0 .. 9
    /\ \A l, m \in EquationLetters(eq) : l # m => sol[l] # sol[m]
    /\ \A i \in DOMAIN eq : sol[eq[i][1]] # 0
    /\ WordValue(eq[1], sol) + WordValue(eq[2], sol) = WordValue(eq[3], sol)

\* the equation skeletons, sized by difficulty
CryptSkeleton(d) ==
    IF d = "easy" THEN <<<<"A">>, <<"A">>, <<"B">>>>
    ELSE IF d = "medium" THEN <<<<"A">>, <<"B">>, <<"B", "C">>>>
    ELSE <<<<"A", "A">>, <<"B">>, <<"B", "C", "C">>>>

\* the skeletons the generator selects from: a medium puzzle may also be one
\* whose letters do not first appear in alphabetical order
CryptSkeletons(d) ==
    {CryptSkeleton(d)}
        \cup (IF d = "medium" THEN {<<<<"C">>, <<"A">>, <<"A", "B">>>>} ELSE {})

\* generateCryptarithm(difficulty): a skeleton of the difficulty with a valid
\* assignment the search found
Cryptarithms ==
    [d \in Difficulties |->
        UNION {{[equation |-> eq, solution |-> sol] :
                    sol \in {f \in [EquationLetters(eq) -> 0 .. 9] : Solves(eq, f)}} :
                eq \in CryptSkeletons(d)}]

generateCryptarithm(d) == Cryptarithms[d]

\* Array.from(new Set(letters of the equation)).sort()
UniqueLetters(eq) == SelectSeq(Alphabet, LAMBDA l : l \in EquationLetters(eq))

\* the options chosen in a letter's select in the model: "?" and some digits
CryptChoices == {-1, 0, 1, 2, 9}

\* the values time can have when checkSolution reads it
CryptTimes == {595}

\* Math.floor((150 + (timeBonus / 10) * difficultyMultiplier) - hintPenalty)
CryptScore(d, time, used) ==
    (1500 + Max2(0, 600 - time) * DifficultyMultiplier(d) - used * 15 * 10) \div 10

Cryptarithms_generateNewPuzzle ==
    \E newPuzzle \in generateCryptarithm(difficulty) :
        /\ puzzle' = newPuzzle
        /\ letters' = UniqueLetters(newPuzzle.equation)
        /\ userSolution' = [l \in EquationLetters(newPuzzle.equation) |-> -1]
        /\ maxHints' = HintAllowance(difficulty)
        /\ hintsUsed' = 0
        /\ isCorrect' = FALSE
        /\ showSolution' = FALSE
        /\ rounds' = rounds + 1
        /\ genDifficulty' = difficulty
        /\ delivered' = <<>>

\* GameInitializer: Start Game
Cryptarithms_handleGameStart ==
    /\ game = "Cryptarithms" /\ ~gameStarted
    /\ rounds < MaxRounds
    /\ Cryptarithms_generateNewPuzzle
    /\ gameStarted' = TRUE
    /\ toast' = NoToast
    /\ UNCHANGED <<ctxVars, ctrlVars, showDifficultySelector, score, gridVars,
                   magicVars, hectoVars, seqVars, aiVars, submission, serverVars>>

\* the pause button is disabled once isCorrect
Cryptarithms_togglePause ==
    /\ game = "Cryptarithms" /\ gameStarted
    /\ isPaused \/ ~isCorrect
    /\ isPaused' = ~isPaused
    /\ toast' = NoToast
    /\ UNCHANGED <<ctxVars, timerStarted, timeIsUp, showDifficultySelector,
                   score, gridVars, magicVars, puzzle, cryptVars, hectoVars,
                   rounds,
                   genDifficulty, delivered, seqVars, aiVars, submission, serverVars>>

\* the mapping and the action buttons are rendered while the game is started,
\* not paused, and neither isCorrect nor showSolution
CryptEditable ==
    /\ game = "Cryptarithms" /\ gameStarted /\ ~isPaused
    /\ ~isCorrect /\ ~showSolution

\* onChange of a letter's select: a digit, or -1 for the "?" option
Cryptarithms_updateSolution(letter, value) ==
    /\ CryptEditable
    /\ letter \in SeqRange(letters) /\ value # userSolution[letter]
    /\ IF \E key \in DOMAIN userSolution : key # letter /\ userSolution[key] = value
       THEN /\ toast' = Toast("Value already used", letter, 0, value, 0)
            /\ UNCHANGED userSolution
       ELSE /\ userSolution' = [userSolution EXCEPT ![letter] = value]
            /\ toast' = NoToast
    /\ UNCHANGED <<ctxVars, ctrlVars, showDifficultySelector, score, gridVars,
                   magicVars, puzzle, letters, hintsUsed, maxHints, isCorrect,
                   showSolution, gameStarted, hectoVars, rounds,
                   genDifficulty, delivered, seqVars, aiVars, submission, serverVars>>

\* useHint: the letter revealed
CryptLetterToReveal(p, ls, sol, used) ==
    LET candidateLetters ==
            SelectSeq(ls, LAMBDA l : sol[l] = -1 \/ sol[l] # p.solution[l])
        firstLetters == {p.equation[i][1] : i \in DOMAIN p.equation}
        firstLetterCandidates ==
            SelectSeq(candidateLetters, LAMBDA l : l \in firstLetters)
    IN  IF candidateLetters = <<>> THEN ""
        ELSE IF used = 0 /\ firstLetterCandidates # <<>>
        THEN firstLetterCandidates[1]
        ELSE candidateLetters[1]

\* the Hint button is disabled while hintsUsed >= maxHints
Cryptarithms_useHint ==
    /\ CryptEditable
    /\ hintsUsed < maxHints
    /\ LET letterToReveal ==
               CryptLetterToReveal(puzzle, letters, userSolution, hintsUsed)
       IN  IF letterToReveal = ""
           THEN /\ toast' = Toast("No hints needed", "", 0, 0, 0)
                /\ UNCHANGED <<userSolution, hintsUsed, score>>
           ELSE /\ userSolution' = [userSolution EXCEPT
                                       ![letterToReveal] = puzzle.solution[letterToReveal]]
                /\ toast' = Toast("Hint Used", letterToReveal, 0,
                                  puzzle.solution[letterToReveal], 0)
                /\ hintsUsed' = hintsUsed + 1
                /\ score' = Max2(0, score - 15)
    /\ UNCHANGED <<ctxVars, ctrlVars, showDifficultySelector, gridVars,
                   magicVars, puzzle, letters, maxHints, isCorrect,
                   showSolution, gameStarted, hectoVars, rounds,
                   genDifficulty, delivered, seqVars, aiVars, submission, serverVars>>

\* checkSolution without the test for unassigned letters, a faulty variant:
\* with it a partial assignment is reported as incorrect
CryptVerdict_NoIncompleteTest(p, ls, sol, d, time, used) ==
    IF \A i \in DOMAIN ls : sol[ls[i]] = p.solution[ls[i]]
    THEN Toast("Correct!", "", 0, CryptScore(d, time, used), 0)
    ELSE Toast("Incorrect Solution", "", 0, 0, 0)

\* checkSolution: the toast it ends with, time being the timer's value
CryptVerdict(p, ls, sol, d, time, used) ==
    IF \E l \in DOMAIN sol : sol[l] = -1
    THEN Toast("Incomplete Solution", "", 0, 0, 0)
    ELSE IF \A i \in DOMAIN ls : sol[ls[i]] = p.solution[ls[i]]
    THEN Toast("Correct!", "", 0, CryptScore(d, time, used), 0)
    ELSE Toast("Incorrect Solution", "", 0, 0, 0)

Cryptarithms_checkSolution ==
    /\ CryptEditable
    /\ \E time \in CryptTimes :
          toast' = CryptVerdict(puzzle, letters, userSolution, difficulty,
                                time, hintsUsed)
    /\ IF toast'.title = "Correct!"
       THEN /\ score' = score + toast'.val
            /\ isCorrect' = TRUE
            /\ UNCHANGED showSolution
            /\ SubmitScore
       ELSE IF toast'.title = "Incorrect Solution" /\ hintsUsed >= maxHints
       THEN /\ showSolution' = TRUE
            /\ UNCHANGED <<score, isCorrect, submission>>
       ELSE UNCHANGED <<score, isCorrect, showSolution, submission>>
    /\ UNCHANGED <<ctxVars, ctrlVars, showDifficultySelector, gridVars,
                   magicVars, puzzle, userSolution, letters, hintsUsed,
                   maxHints, gameStarted, hectoVars, rounds,
                   genDifficulty, delivered, seqVars, aiVars, serverVars>>

\* the New Game button, rendered once isCorrect or showSolution
Cryptarithms_newGame ==
    /\ game = "Cryptarithms" /\ gameStarted /\ ~isPaused
    /\ isCorrect \/ showSolution
    /\ gameStarted' = FALSE
    /\ toast' = NoToast
    /\ UNCHANGED <<ctxVars, ctrlVars, showDifficultySelector, score, gridVars,
                   magicVars, puzzle, userSolution, letters, hintsUsed,
                   maxHints, isCorrect, showSolution, hectoVars, rounds,
                   genDifficulty, delivered, seqVars, aiVars, submission, serverVars>>

----------------------------------------------------------------------------
(* HectoClash *)

\* the characters an expression is built from: a number button appends the
\* number's digits, an operation button appends op.symbol
DigitChars == <<"0", "1", "2", "3", "4", "5", "6", "7", "8", "9">>

\* the operation buttons pressed in the model
Operations == {"+", "(", ")"}

IsDigit(c) == \E i \in DOMAIN DigitChars : DigitChars[i] = c
DigitValue(c) == (CHOOSE i \in DOMAIN DigitChars : DigitChars[i] = c) - 1

\* generateHectocPuzzle(difficulty): single digits and a target that an
\* expression over all of them reaches: 1+2, 2+3, 3+4
generateHectocPuzzle(d) ==
    IF d = "easy" THEN {[numbers |-> <<1, 2>>, target |-> 3]}
    ELSE IF d = "medium" THEN {[numbers |-> <<2, 3>>, target |-> 5]}
    ELSE {[numbers |-> <<3, 4>>, target |-> 7]}

\* JavaScript numbers, kept as fractions <<num, den>> in lowest terms with
\* den > 0; <<0, 0>> stands for a result that is no fraction of integers
\* (Infinity, NaN, an irrational power)
NotFraction == <<0, 0>>

NumAdd(a, b) ==
    IF a[2] = 0 \/ b[2] = 0 THEN NotFraction
    ELSE Fraction(a[1] * b[2] + b[1] * a[2], a[2] * b[2])

NumNeg(a) == IF a[2] = 0 THEN NotFraction ELSE <<0 - a[1], a[2]>>

NumMul(a, b) ==
    IF a[2] = 0 \/ b[2] = 0 THEN NotFraction
    ELSE Fraction(a[1] * b[1], a[2] * b[2])

RECURSIVE IntPow(_, _)
IntPow(b, e) == IF e = 0 THEN 1 ELSE b * IntPow(b, e - 1)

\* base ** exponent
NumPow(b, e) ==
    IF b[2] = 0 \/ e[2] # 1 THEN NotFraction
    ELSE IF e[1] >= 0 THEN <<IntPow(b[1], e[1]), IntPow(b[2], e[1])>>
    ELSE IF b[1] = 0 THEN NotFraction
    ELSE IF b[1] > 0 THEN <<IntPow(b[2], 0 - e[1]), IntPow(b[1], 0 - e[1])>>
    ELSE <<IntPow(0 - b[2], 0 - e[1]), IntPow(0 - b[1], 0 - e[1])>>

\* the parse of the text handed to Function: JavaScript's expression grammar
\* over these characters.  A parse result is [ok, val, pos, bare]: whether an
\* expression was read, its value, the position after it, and whether it is
\* an operand with no unary operator before it
JsFail == [ok |-> FALSE, val |-> NotFraction, pos |-> 0, bare |-> FALSE]
JsOk(val, pos, bare) == [ok |-> TRUE, val |-> val, pos |-> pos, bare |-> bare]

Tok(t, i) == IF i \in 1 .. Len(t) THEN t[i] ELSE "$"

\* the parser, one grammar level per case; acc is the value read so far
\*   Number          a numeric literal: the run of digits from position i
\*   Primary         a literal or a parenthesized expression; strict mode
\*                   refuses a literal with a leading zero
\*   Call            an operand followed by "(" is a call of a number, which
\*                   throws (a SyntaxError in the arguments or a TypeError at
\*                   the call)
\*   Unary           "++" and "--" are single tokens, and an update of a
\*                   number is a SyntaxError
\*   Exponent        "**" is one token, right-associative, and its base may
\*                   not be a unary expression
\*   Multiplicative, MulRest, Additive, AddRest: left-associative chains
RECURSIVE JsParse(_, _, _, _)
JsParse(level, t, i, acc) ==
    CASE level = "Number" ->
            IF IsDigit(Tok(t, i))
            THEN JsParse("Number", t, i + 1,
                         <<10 * acc[1] + DigitValue(Tok(t, i)), 1>>)
            ELSE JsOk(acc, i, TRUE)
      [] level = "Primary" ->
            IF IsDigit(Tok(t, i))
            THEN IF Tok(t, i) = "0" /\ IsDigit(Tok(t, i + 1)) THEN JsFail
                 ELSE JsParse("Number", t, i, <<0, 1>>)
            ELSE IF Tok(t, i) = "("
            THEN LET r == JsParse("Additive", t, i + 1, acc)
                 IN  IF r.ok /\ Tok(t, r.pos) = ")"
                     THEN JsOk(r.val, r.pos + 1, TRUE)
                     ELSE JsFail
            ELSE JsFail
      [] level = "Call" ->
            LET p == JsParse("Primary", t, i, acc)
            IN  IF p.ok /\ Tok(t, p.pos) = "(" THEN JsFail ELSE p
      [] level = "Unary" ->
            IF Tok(t, i) \in {"+", "-"}
            THEN IF Tok(t, i + 1) = Tok(t, i) THEN JsFail
                 ELSE LET r == JsParse("Unary", t, i + 1, acc)
                      IN  IF ~r.ok THEN JsFail
                          ELSE JsOk(IF Tok(t, i) = "-" THEN NumNeg(r.val)
                                    ELSE r.val, r.pos, FALSE)
            ELSE JsParse("Call", t, i, acc)
      [] level = "Exponent" ->
            LET u == JsParse("Unary", t, i, acc)
            IN  IF ~u.ok THEN JsFail
                ELSE IF Tok(t, u.pos) = "*" /\ Tok(t, u.pos + 1) = "*"
                THEN IF ~u.bare THEN JsFail
                     ELSE LET e == JsParse("Exponent", t, u.pos + 2, acc)
                          IN  IF e.ok
                              THEN JsOk(NumPow(u.val, e.val), e.pos, FALSE)
                              ELSE JsFail
                ELSE u
      [] level = "MulRest" ->
            IF Tok(t, i) = "*"
            THEN IF Tok(t, i + 1) = "*" THEN JsFail
                 ELSE LET r == JsParse("Exponent", t, i + 1, acc)
                      IN  IF r.ok
                          THEN JsParse("MulRest", t, r.pos, NumMul(acc, r.val))
                          ELSE JsFail
            ELSE JsOk(acc, i, FALSE)
      [] level = "Multiplicative" ->
            LET e == JsParse("Exponent", t, i, acc)
            IN  IF e.ok THEN JsParse("MulRest", t, e.pos, e.val) ELSE JsFail
      [] level = "AddRest" ->
            IF Tok(t, i) \in {"+", "-"}
            THEN IF Tok(t, i + 1) = Tok(t, i) THEN JsFail
                 ELSE LET r == JsParse("Multiplicative", t, i + 1, acc)
                      IN  IF ~r.ok THEN JsFail
                          ELSE JsParse("AddRest", t, r.pos,
                                       NumAdd(acc, IF Tok(t, i) = "-"
                                                   THEN NumNeg(r.val)
                                                   ELSE r.val))
            ELSE JsOk(acc, i, FALSE)
      [] level = "Additive" ->
            LET m == JsParse("Multiplicative", t, i, acc)
            IN  IF m.ok THEN JsParse("AddRest", t, m.pos, m.val) ELSE JsFail

\* Function(`"use strict"; return (${expression})`)(): the text between the
\* parentheses is the expression, and all of "(" expression ")" is parsed
JsEvaluate(expr) ==
    LET t == <<"(">> \o expr \o <<")">>
        r == JsParse("Additive", t, 1, <<0, 1>>)
    IN  IF r.ok /\ r.pos = Len(t) + 1 THEN JsOk(r.val, r.pos, FALSE) ELSE JsFail

\* the values time can have when evaluateExpression reads it
HectoTimes == {118}

\* const newScore = 50 + (timeBonus * difficultyMultiplier)
HectoScore(d, time) == 50 + Max2(0, 120 - time) * DifficultyMultiplier(d)

HectoClash_generateNewPuzzleBody ==
    \E newPuzzle \in generateHectocPuzzle(difficulty) :
        /\ puzzle' = newPuzzle
        /\ expression' = <<>>
        /\ usedNumberIndexes' = <<>>
        /\ hint' = ""
        /\ isGameComplete' = FALSE
        /\ rounds' = rounds + 1
        /\ genDifficulty' = difficulty
        /\ delivered' = <<>>

\* the Next Puzzle button, rendered once isGameComplete
HectoClash_generateNewPuzzle ==
    /\ game = "HectoClash" /\ isGameComplete
    /\ rounds < MaxRounds
    /\ HectoClash_generateNewPuzzleBody
    /\ toast' = NoToast
    /\ UNCHANGED <<ctxVars, ctrlVars, showDifficultySelector, score, grid,
                   originalGrid, cages, size, selectedCell, hintsRemaining,
                   generated, magicVars, cryptVars, seqVars, aiVars,
                   submission, serverVars>>

\* a number button is disabled once its index is used
HectoClash_addNumber(index) ==
    /\ game = "HectoClash" /\ ~isGameComplete
    /\ index \in 0 .. Len(puzzle.numbers) - 1
    /\ index \notin SeqRange(usedNumberIndexes)
    /\ Len(expression) < MaxExprLen
    /\ IF index \in SeqRange(usedNumberIndexes)
       THEN UNCHANGED <<expression, usedNumberIndexes>>
       ELSE /\ expression' = Append(expression, DigitChars[puzzle.numbers[index + 1] + 1])
            /\ usedNumberIndexes' = Append(usedNumberIndexes, index)
    /\ toast' = NoToast
    /\ UNCHANGED <<ctxVars, ctrlVars, showDifficultySelector, score, gridVars,
                   magicVars, puzzle, cryptVars, hint, rounds,
                   genDifficulty, delivered, seqVars, aiVars, submission, serverVars>>

HectoClash_addOperation(op) ==
    /\ game = "HectoClash" /\ ~isGameComplete
    /\ Len(expression) < MaxExprLen
    /\ expression' = Append(expression, op)
    /\ toast' = NoToast
    /\ UNCHANGED <<ctxVars, ctrlVars, showDifficultySelector, score, gridVars,
                   magicVars, puzzle, cryptVars, usedNumberIndexes, hint,
                   rounds,
                   genDifficulty, delivered, seqVars, aiVars, submission, serverVars>>

\* clearExpression, were it to empty the expression only
HectoClash_clearExpression_KeepsIndexes ==
    /\ game = "HectoClash" /\ ~isGameComplete
    /\ expression' = <<>>
    /\ usedNumberIndexes' = usedNumberIndexes
    /\ toast' = NoToast
    /\ UNCHANGED <<ctxVars, ctrlVars, showDifficultySelector, score, gridVars,
                   magicVars, puzzle, cryptVars, hint, rounds,
                   genDifficulty, delivered, seqVars, aiVars, submission, serverVars>>
\* the Clear button
HectoClash_clearExpression ==
    /\ game = "HectoClash" /\ ~isGameComplete
    /\ expression' = <<>>
    /\ usedNumberIndexes' = <<>>
    /\ toast' = NoToast
    /\ UNCHANGED <<ctxVars, ctrlVars, showDifficultySelector, score, gridVars,
                   magicVars, puzzle, cryptVars, hint, rounds,
                   genDifficulty, delivered, seqVars, aiVars, submission, serverVars>>

\* Quick Hint, asked once per puzzle in the model
HectoClash_showHint ==
    /\ game = "HectoClash" /\ ~isGameComplete
    /\ hint = ""
    /\ hint' = "shown"
    /\ score' = Max2(0, score - 5)
    /\ toast' = NoToast
    /\ UNCHANGED <<ctxVars, ctrlVars, showDifficultySelector, gridVars,
                   magicVars, puzzle, cryptVars, expression,
                   usedNumberIndexes, rounds,
                   genDifficulty, delivered, seqVars, aiVars, submission, serverVars>>

\* evaluateExpression with the try block ahead of the usedNumberIndexes test,
\* a faulty variant: with it a malformed expression that leaves a number
\* unused is reported as a syntax error
HectoVerdict_SyntaxFirst(p, expr, used, d, time) ==
    LET result == JsEvaluate(expr)
    IN  IF ~result.ok THEN Toast("Invalid Expression", "", 0, 0, 0)
        ELSE IF Len(used) # Len(p.numbers)
        THEN Toast("Use all numbers", "", 0, 0, 0)
        ELSE IF result.val = <<p.target, 1>>
        THEN Toast("Correct!", "", 0, HectoScore(d, time), 0)
        ELSE Toast("Incorrect", "", 0, result.val[1], result.val[2])

\* evaluateExpression: the toast it ends with, time being the timer's value
HectoVerdict(p, expr, used, d, time) ==
    IF Len(used) # Len(p.numbers)
    THEN Toast("Use all numbers", "", 0, 0, 0)
    ELSE LET result == JsEvaluate(expr)
         IN  IF ~result.ok THEN Toast("Invalid Expression", "", 0, 0, 0)
             ELSE IF result.val = <<p.target, 1>>
             THEN Toast("Correct!", "", 0, HectoScore(d, time), 0)
             ELSE Toast("Incorrect", "", 0, result.val[1], result.val[2])

HectoClash_evaluateExpression ==
    /\ game = "HectoClash" /\ ~isGameComplete
    /\ \E time \in HectoTimes :
          toast' = HectoVerdict(puzzle, expression, usedNumberIndexes,
                                difficulty, time)
    /\ IF toast'.title = "Correct!"
       THEN /\ score' = score + toast'.val
            /\ isGameComplete' = TRUE
            /\ SubmitScore
       ELSE UNCHANGED <<score, isGameComplete, submission>>
    /\ UNCHANGED <<ctxVars, ctrlVars, showDifficultySelector, grid,
                   originalGrid, cages, size, selectedCell, hintsRemaining,
                   generated, magicVars, puzzle, cryptVars, hectoVars, rounds,
                   genDifficulty, delivered, seqVars, aiVars, serverVars>>

----------------------------------------------------------------------------
(* Number Sequences *)

\* a text is the sequence of its pieces; ":" is a piece of its own
Colon == ":"

\* text.split(":"): the pieces between the colons, as a sequence of texts
RECURSIVE SplitAtColon(_, _)
SplitAtColon(text, piece) ==
    IF text = <<>> THEN <<piece>>
    ELSE IF Head(text) = Colon THEN <<piece>> \o SplitAtColon(Tail(text), <<>>)
    ELSE SplitAtColon(Tail(text), Append(piece, Head(text)))

Split(text) == SplitAtColon(text, <<>>)

\* generateNumberSequence(difficulty): a sequence of a pattern family of the
\* difficulty, its next term, and the rule "{category}: {specific rule text}"
NumberSequencesOf ==
    [d \in Difficulties |->
        IF d = "easy"
        THEN {[sequence |-> <<2, 4, 6, 8, 10>>, nextNumber |-> 12,
               rule |-> <<"Arithmetic", Colon, " add 2">>, difficulty |-> d]}
        ELSE IF d = "medium"
        THEN {[sequence |-> <<1, 1, 2, 3, 5>>, nextNumber |-> 8,
               rule |-> <<"Fibonacci-like", Colon, " sum of the previous two">>,
               difficulty |-> d]}
        ELSE {[sequence |-> <<1, 4, 9, 16, 25>>, nextNumber |-> 36,
               rule |-> <<"Polynomial", Colon, " squares">>, difficulty |-> d]}]

generateNumberSequence(d) == NumberSequencesOf[d]

\* what is left of a typed text by replace(/[^0-9-]/g, ""), as characters
SequenceAnswers == {<<"1", "2">>, <<"8">>, <<"-">>, <<"8", "-">>}

\* parseInt(text, 10) on digits and "-": an optional sign, then the digits up
\* to the first other character; NaN when there is no digit
NaN == [nan |-> TRUE, val |-> 0]
Number(n) == [nan |-> FALSE, val |-> n]
isNaN(x) == x.nan

RECURSIVE LeadingDigits(_, _)
LeadingDigits(text, acc) ==
    IF text = <<>> \/ ~IsDigit(Head(text)) THEN acc
    ELSE LeadingDigits(Tail(text), 10 * acc + DigitValue(Head(text)))

parseInt(text) ==
    LET signed == text # <<>> /\ Head(text) = "-"
        digits == IF signed THEN Tail(text) ELSE text
    IN  IF digits = <<>> \/ ~IsDigit(Head(digits)) THEN NaN
        ELSE IF signed THEN Number(0 - LeadingDigits(digits, 0))
        ELSE Number(LeadingDigits(digits, 0))

\* const newScore = 50 * difficultyMultiplier - hintsUsed * 10
SequenceScore(d, used) == 50 * DifficultyMultiplier(d) - used * 10

\* the fallback texts of the hints, and the message when none is left
LookForAPattern == <<"Look for a pattern">>
AnalyzeTheChanges == <<"Analyze the changes between consecutive numbers">>
NoHintsMessage == <<"You've used all your available hints.">>

\* a || b on texts: the empty text is falsy
OrElse(text, fallback) == IF text = <<>> THEN fallback ELSE text

\* the hint for a value of hintsUsed: rule.split(":")[0], rule.split(":")[1],
\* or the rule
SequenceHint(seq, used) ==
    IF used = 0 THEN OrElse(Split(seq.rule)[1], LookForAPattern)
    ELSE IF used = 1
    THEN OrElse(IF Len(Split(seq.rule)) >= 2 THEN Split(seq.rule)[2] ELSE <<>>,
                AnalyzeTheChanges)
    ELSE seq.rule

NumberSequences_generateNewPuzzle ==
    \E newSequence \in generateNumberSequence(difficulty) :
        /\ sequence' = newSequence
        /\ maxHints' = HintAllowance(difficulty)
        /\ userAnswer' = NoAnswer
        /\ hintsUsed' = 0
        /\ isCorrect' = FALSE
        /\ isIncorrect' = FALSE
        /\ showRule' = FALSE
        /\ score' = 0
        /\ hint' = <<>>
        /\ rounds' = rounds + 1
        /\ genDifficulty' = difficulty
        /\ delivered' = <<>>

\* GameInitializer: Start Game
NumberSequences_handleGameStart ==
    /\ game = "NumberSequences" /\ showDifficultySelector
    /\ rounds < MaxRounds
    /\ NumberSequences_generateNewPuzzle
    /\ showDifficultySelector' = FALSE
    /\ ControllerMount
    /\ toast' = NoToast
    /\ UNCHANGED <<ctxVars, gridVars, magicVars, puzzle, userSolution, letters,
                   showSolution, gameStarted, expression, usedNumberIndexes,
                   aiVars, submission, serverVars>>

\* Reset with onReset = handleReset = generateNewPuzzle
NumberSequences_handleReset ==
    /\ game = "NumberSequences" /\ ControllerMounted /\ ~GameComplete
    /\ rounds < MaxRounds
    /\ ControllerReset
    /\ AIUnmount
    /\ NumberSequences_generateNewPuzzle
    /\ toast' = NoToast
    /\ UNCHANGED <<ctxVars, showDifficultySelector, gridVars, magicVars, puzzle,
                   userSolution, letters, showSolution, gameStarted,
                   expression, usedNumberIndexes, submission, serverVars>>

\* the input is rendered while !isCorrect
NumberSequences_handleInputChange(value) ==
    /\ game = "NumberSequences" /\ ChildrenClickable /\ ~isCorrect
    /\ userAnswer' = value
    /\ isIncorrect' = FALSE
    /\ toast' = NoToast
    /\ UNCHANGED <<ctxVars, ctrlVars, showDifficultySelector, score, gridVars,
                   magicVars, puzzle, cryptVars, hectoVars, rounds,
                   genDifficulty, delivered, sequence, showRule, aiVars,
                   submission, serverVars>>

\* the Hint button is rendered while !isCorrect and disabled while
\* hintsUsed >= maxHints
NumberSequences_useHint ==
    /\ game = "NumberSequences" /\ ChildrenClickable /\ ~isCorrect
    /\ hintsUsed < maxHints
    /\ toast' = Toast(IF hintsUsed = 0 THEN "Hint 1"
                      ELSE IF hintsUsed = 1 THEN "Hint 2" ELSE "Final Hint",
                      "", 0, 0, 0)
    /\ showRule' = IF hintsUsed >= 2 THEN TRUE ELSE showRule
    /\ hint' = SequenceHint(sequence, hintsUsed)
    /\ hintsUsed' = hintsUsed + 1
    /\ score' = Max2(0, score - 10)
    /\ delivered' = Append(delivered,
                           Delivery("button", SequenceHint(sequence, hintsUsed)))
    /\ UNCHANGED <<ctxVars, ctrlVars, showDifficultySelector, gridVars,
                   magicVars, puzzle, userSolution, letters, maxHints,
                   isCorrect, showSolution, gameStarted, expression,
                   usedNumberIndexes, rounds, genDifficulty, sequence,
                   userAnswer, isIncorrect, aiVars, submission, serverVars>>

\* checkAnswer, were a right answer not to mark the puzzle as solved
NumberSequences_checkAnswer_StaysOpen ==
    /\ game = "NumberSequences" /\ ChildrenClickable /\ ~isCorrect
    /\ userAnswer # NoAnswer
    /\ LET parsedAnswer == parseInt(userAnswer)
       IN  IF isNaN(parsedAnswer)
           THEN /\ toast' = Toast("Invalid input", "", 0, 0, 0)
                /\ UNCHANGED <<score, isCorrect, showRule, isIncorrect,
                               ctrlVars, aiVars,
                               submission>>
           ELSE IF parsedAnswer.val = sequence.nextNumber
           THEN /\ score' = score + SequenceScore(difficulty, hintsUsed)
                /\ isCorrect' = isCorrect
                /\ showRule' = TRUE
                /\ toast' = Toast("Correct!", "", 0,
                                  SequenceScore(difficulty, hintsUsed), 0)
                /\ CompletionEffect
                /\ SubmitScore
                /\ UNCHANGED isIncorrect
           ELSE /\ isIncorrect' = TRUE
                /\ toast' = Toast("Incorrect", "", 0, 0, 0)
                /\ UNCHANGED <<score, isCorrect, showRule, ctrlVars, aiVars,
                               submission>>
    /\ UNCHANGED <<ctxVars, showDifficultySelector, gridVars, magicVars, puzzle,
                   userSolution, letters, hintsUsed, maxHints, showSolution,
                   gameStarted, hectoVars, rounds, genDifficulty, delivered,
                   sequence, userAnswer, serverVars>>
\* the Check Answer button is disabled while userAnswer is empty
NumberSequences_checkAnswer ==
    /\ game = "NumberSequences" /\ ChildrenClickable /\ ~isCorrect
    /\ userAnswer # NoAnswer
    /\ LET parsedAnswer == parseInt(userAnswer)
       IN  IF isNaN(parsedAnswer)
           THEN /\ toast' = Toast("Invalid input", "", 0, 0, 0)
                /\ UNCHANGED <<score, isCorrect, showRule, isIncorrect,
                               ctrlVars, aiVars,
                               submission>>
           ELSE IF parsedAnswer.val = sequence.nextNumber
           THEN /\ score' = score + SequenceScore(difficulty, hintsUsed)
                /\ isCorrect' = TRUE
                /\ showRule' = TRUE
                /\ toast' = Toast("Correct!", "", 0,
                                  SequenceScore(difficulty, hintsUsed), 0)
                /\ CompletionEffect
                /\ SubmitScore
                /\ UNCHANGED isIncorrect
           ELSE /\ isIncorrect' = TRUE
                /\ toast' = Toast("Incorrect", "", 0, 0, 0)
                /\ UNCHANGED <<score, isCorrect, showRule, ctrlVars, aiVars,
                               submission>>
    /\ UNCHANGED <<ctxVars, showDifficultySelector, gridVars, magicVars, puzzle,
                   userSolution, letters, hintsUsed, maxHints, showSolution,
                   gameStarted, hectoVars, rounds, genDifficulty, delivered,
                   sequence, userAnswer, serverVars>>

----------------------------------------------------------------------------
(* AIAssistant, as KenKen and Number Sequences render it *)

\* what a chat message asks for: a text with "hint" or "help", or another
ChatAsks == {"hint", "other"}

\* the callback a click or a message schedules: its closure holds the
\* onRequestHint of the render it was made in, with the state of the game as
\* of that render; live says whether its AIAssistant is still rendered
Callback(from, asks) ==
    [from |-> from, asks |-> asks, live |-> TRUE,
     hintsUsed |-> hintsUsed, maxHints |-> maxHints, sequence |-> sequence,
     hintsRemaining |-> hintsRemaining]

AIAssistantClickable ==
    /\ AIAssistantUsed /\ ChildrenClickable

\* the Hint button is disabled while loadingHint or hintCount <= 0
AIAssistant_requestHint ==
    /\ AIAssistantClickable
    /\ ~loadingHint /\ hintCount > 0
    /\ Len(aiPending) < MaxPending
    /\ loadingHint' = TRUE
    /\ aiPending' = Append(aiPending, Callback("requestHint", "hint"))
    /\ toast' = NoToast
    /\ UNCHANGED <<ctxVars, ctrlVars, showDifficultySelector, score, gridVars,
                   magicVars, puzzle, cryptVars, hectoVars, rounds,
                   genDifficulty, delivered, seqVars, hintCount, submission, serverVars>>

\* the Enter key in the message field, which no state disables
AIAssistant_handleSendMessageWithin(limit, asks) ==
    /\ AIAssistantClickable
    /\ Len(aiPending) < limit
    /\ loadingHint' = TRUE
    /\ aiPending' = Append(aiPending, Callback("handleSendMessage", asks))
    /\ toast' = NoToast
    /\ UNCHANGED <<ctxVars, ctrlVars, showDifficultySelector, score, gridVars,
                   magicVars, puzzle, cryptVars, hectoVars, rounds,
                   genDifficulty, delivered, seqVars, hintCount, submission, serverVars>>

AIAssistant_handleSendMessage(asks) ==
    AIAssistant_handleSendMessageWithin(MaxPending, asks)

\* the reset button of the chat: setMessages([greeting]) and
\* setHintCount(hintsRemaining), whatever is loading
AIAssistant_reset ==
    /\ AIAssistantClickable
    /\ hintCount' = AIHintsProp
    /\ toast' = NoToast
    /\ UNCHANGED <<ctxVars, ctrlVars, showDifficultySelector, score, gridVars,
                   magicVars, puzzle, cryptVars, hectoVars, rounds,
                   genDifficulty, delivered, seqVars, aiPending, loadingHint,
                   submission, serverVars>>

\* onRequestHint of Number Sequences, run from a callback
NumberSequences_onRequestHint(cb) ==
    IF cb.hintsUsed >= cb.maxHints
    THEN /\ hint' = NoHintsMessage
         /\ UNCHANGED <<showRule, hintsUsed, score, delivered>>
    ELSE /\ showRule' = IF cb.hintsUsed >= 2 THEN TRUE ELSE showRule
         /\ hintsUsed' = hintsUsed + 1
         /\ score' = Max2(0, score - 10)
         /\ hint' = SequenceHint(cb.sequence, cb.hintsUsed)
         /\ delivered' = Append(delivered,
                Delivery("assistant", SequenceHint(cb.sequence, cb.hintsUsed)))

\* onRequestHint of KenKen, run from a callback: one of the tips
KenKen_onRequestHint(cb) ==
    IF cb.hintsRemaining <= 0
    THEN /\ hint' = NoHintsMessage
         /\ UNCHANGED <<hintsRemaining, score, delivered>>
    ELSE /\ hintsRemaining' = Max2(0, hintsRemaining - 1)
         /\ score' = Max2(0, score - 10)
         /\ hint' = <<"tip">>
         /\ delivered' = Append(delivered, Delivery("assistant", <<"tip">>))

\* a callback made after 800 ms runs before one made after 1000 ms that was
\* scheduled less than 200 ms earlier
MayRun(i) ==
    \/ i = 1
    \/ /\ aiPending[i].from = "requestHint"
       /\ \A j \in 1 .. i - 1 : aiPending[j].from = "handleSendMessage"

Without(seq, i) == SubSeq(seq, 1, i - 1) \o SubSeq(seq, i + 1, Len(seq))

\* the body of a setTimeout callback of requestHint or handleSendMessage
AIAssistant_timeout(i) ==
    /\ AIAssistantUsed
    /\ i \in DOMAIN aiPending /\ MayRun(i)
    /\ LET cb == aiPending[i]
       IN  /\ aiPending' = Without(aiPending, i)
           /\ IF cb.asks = "hint"
              THEN IF game = "NumberSequences"
                   THEN /\ NumberSequences_onRequestHint(cb)
                        /\ UNCHANGED hintsRemaining
                   ELSE /\ KenKen_onRequestHint(cb)
                        /\ UNCHANGED <<showRule, hintsUsed>>
              ELSE UNCHANGED <<hint, showRule, hintsUsed, hintsRemaining,
                               score, delivered>>
           /\ IF cb.live
              THEN /\ loadingHint' = FALSE
                   /\ hintCount' =
                         IF cb.asks # "hint" THEN hintCount
                         ELSE IF cb.from = "requestHint" THEN hintCount - 1
                         ELSE Max2(0, hintCount - 1)
              ELSE UNCHANGED <<loadingHint, hintCount>>
    /\ toast' = NoToast
    /\ UNCHANGED <<ctxVars, ctrlVars, showDifficultySelector, grid,
                   originalGrid, cages, size, selectedCell, isGameComplete,
                   generated, magicVars, puzzle, userSolution, letters,
                   maxHints, isCorrect, showSolution, gameStarted, expression,
                   usedNumberIndexes, rounds, genDifficulty, sequence,
                   userAnswer, isIncorrect, submission, serverVars>>

----------------------------------------------------------------------------
(* submitScore: the request to the results sink *)

\* await apiRequest("/api/results", ...) settles, were a failure to undo
\* the completion
Results_settle_Undo(ok) ==
    /\ submission = "pending"
    /\ submission' = IF ok THEN "succeeded" ELSE "failed"
    /\ isGameComplete' = IF ok THEN isGameComplete ELSE FALSE
    /\ isCorrect' = IF ok THEN isCorrect ELSE FALSE
    /\ UNCHANGED <<ctxVars, ctrlVars, showDifficultySelector, score, grid,
                   originalGrid, cages, size, selectedCell, hintsRemaining,
                   generated, magicVars, puzzle, userSolution, letters,
                   hintsUsed, maxHints, showSolution, gameStarted, hectoVars,
                   rounds, toast, genDifficulty, delivered, sequence,
                   userAnswer, isIncorrect, showRule, aiVars, serverVars>>
\* await apiRequest("/api/results", ...) settles: submitScore returns, or
\* its catch logs "Failed to submit score:" to the console
Results_settle(ok) ==
    /\ submission = "pending"
    /\ submission' = IF ok THEN "succeeded" ELSE "failed"
    /\ UNCHANGED <<ctxVars, ctrlVars, showDifficultySelector, score, grid,
                   originalGrid, cages, size, selectedCell, hintsRemaining,
                   isGameComplete, generated, magicVars, puzzle, userSolution,
                   letters, hintsUsed, maxHints, isCorrect, showSolution,
                   gameStarted, hectoVars, rounds, toast, genDifficulty,
                   delivered, sequence, userAnswer, isIncorrect, showRule,
                   aiVars, serverVars>>

----------------------------------------------------------------------------
(* server/ai.ts: the hint provider *)

\* the keys process.env may hold
EnvKeys == {"XAI_API_KEY", "OPENAI_API_KEY"}

\* the game types a request names: the six games in the spellings the
\* client uses, one already in lower case, and one the server does not know
GameTypes ==
    {"HectoClash", "hectoclash", "Sudoku", "MagicSquares", "KenKen",
     "NumberSequences", "Cryptarithms", "Chess"}

\* gameType.toLowerCase()
toLowerCase(gameType) ==
    CASE gameType = "HectoClash" -> "hectoclash"
      [] gameType = "Sudoku" -> "sudoku"
      [] gameType = "MagicSquares" -> "magicsquares"
      [] gameType = "KenKen" -> "kenken"
      [] gameType = "NumberSequences" -> "numbersequences"
      [] gameType = "Cryptarithms" -> "cryptarithms"
      [] gameType = "Chess" -> "chess"
      [] OTHER -> gameType

\* getGenericHint(gameType, difficulty): the built-in hints
getGenericHint(gameType, d) ==
    LET type == toLowerCase(gameType)
    IN  CASE type = "hectoclash" ->
                 IF d = "easy"
                 THEN "Try starting with the largest number and using basic operations to reach the target."
                 ELSE IF d = "medium"
                 THEN "Consider using parentheses to group operations in different ways."
                 ELSE "Sometimes the division operator can help get precise values that are otherwise difficult to reach."
          [] type = "sudoku" ->
                 IF d = "easy"
                 THEN "Look for rows, columns, or 3x3 boxes where only one cell can contain a specific number."
                 ELSE IF d = "medium"
                 THEN "Try the 'pencil marking' technique to track possible values for each empty cell."
                 ELSE "Look for 'naked pairs' - two cells in a row, column, or box that can only contain the same two values."
          [] type = "magicsquares" ->
                 "Remember that in a magic square, every row, column, and diagonal must sum to the same 'magic' number."
          [] type = "kenken" ->
                 "Start with cages that have only one cell, then look for cages with operations that severely limit the possible values."
          [] type = "numbersequences" ->
                 "Look for common patterns: arithmetic (adding/subtracting), geometric (multiplying/dividing), squares, or alternating sequences."
          [] type = "cryptarithms" ->
                 "Start by focusing on the most constrained letters - often those that appear in the rightmost column or those that must be carried."
          [] OTHER ->
                 "Break the problem into smaller parts and look for patterns or constraints that can help you narrow down the possibilities."

\* prepareHintPrompt throws a TypeError when the context lacks the array it
\* joins or formats: numbers, grid, cages or sequence; the equation of a
\* cryptarithm and the default prompt are only interpolated
PromptThrows(gameType, complete) ==
    /\ ~complete
    /\ toLowerCase(gameType) \in
           {"hectoclash", "sudoku", "magicsquares", "kenken", "numbersequences"}

\* message.content of the first choice: a text or null
NullContent == [null |-> TRUE, text |-> ""]
Content(text) == [null |-> FALSE, text |-> text]

\* how client.chat.completions.create settles: it rejects with an API error
\* or with the client's timeout error, or it resolves with a response of
\* no or one choice
ProviderOutcomes ==
    {[kind |-> "rejected", choices |-> 0, content |-> NullContent],
     [kind |-> "timedOut", choices |-> 0, content |-> NullContent],
     [kind |-> "response", choices |-> 0, content |-> NullContent],
     [kind |-> "response", choices |-> 1, content |-> NullContent],
     [kind |-> "response", choices |-> 1, content |-> Content("")],
     [kind |-> "response", choices |-> 1,
      content |-> Content("Compare the differences of neighbouring terms.")]}

\* the name a request keeps of how its provider call went
OutcomeName(outcome) ==
    IF outcome.kind # "response" THEN outcome.kind
    ELSE IF outcome.choices = 0 THEN "noChoices"
    ELSE IF outcome.content.null THEN "nullContent"
    ELSE IF outcome.content.text = "" THEN "emptyContent"
    ELSE "content"

Resolved(text) == [state |-> "resolved", text |-> text]
Rejected == [state |-> "rejected", text |-> ""]

\* generateHint from the await on, were its body not in a try/catch
generateHint_NoCatch(outcome, gameType, d) ==
    IF outcome.kind # "response" THEN Rejected
    ELSE IF outcome.choices = 0 THEN Rejected
    ELSE IF outcome.content.null \/ outcome.content.text = ""
    THEN Resolved(getGenericHint(gameType, d))
    ELSE Resolved(outcome.content.text)
\* generateHint from the await on: the rejection of the call and the
\* TypeError of response.choices[0].message are caught, and
\* content || getGenericHint(...) replaces null and ""
generateHint(outcome, gameType, d) ==
    IF outcome.kind # "response" THEN Resolved(getGenericHint(gameType, d))
    ELSE IF outcome.choices = 0 THEN Resolved(getGenericHint(gameType, d))
    ELSE IF outcome.content.null \/ outcome.content.text = ""
    THEN Resolved(getGenericHint(gameType, d))
    ELSE Resolved(outcome.content.text)

\* initAIClient(): the xAI key first, then the OpenAI key, else client stays
\* null; a constructor that throws leaves client null
Server_initAIClient(env, throws) ==
    /\ hintRequest.state = "idle"
    /\ client' = IF throws THEN NoClient
                 ELSE IF "XAI_API_KEY" \in env THEN "xai"
                 ELSE IF "OPENAI_API_KEY" \in env THEN "openai"
                 ELSE client
    /\ UNCHANGED <<ctxVars, ctrlVars, showDifficultySelector, score, gridVars,
                   magicVars, puzzle, cryptVars, hectoVars, rounds, toast,
                   genDifficulty, delivered, seqVars, aiVars, submission,
                   hintRequest, storeVars>>

\* generateHint(gameType, difficulty, context) up to its await
Server_generateHint(gameType, d, complete) ==
    /\ hintRequest.state = "idle"
    /\ hintRequest' =
          IF client = NoClient
          THEN [state |-> "resolved", gameType |-> gameType, difficulty |-> d,
                outcome |-> "noClient", text |-> getGenericHint(gameType, d)]
          ELSE IF PromptThrows(gameType, complete)
          THEN [state |-> "resolved", gameType |-> gameType, difficulty |-> d,
                outcome |-> "promptThrew", text |-> getGenericHint(gameType, d)]
          ELSE [state |-> "awaiting", gameType |-> gameType, difficulty |-> d,
                outcome |-> "none", text |-> ""]
    /\ UNCHANGED <<ctxVars, ctrlVars, showDifficultySelector, score, gridVars,
                   magicVars, puzzle, cryptVars, hectoVars, rounds, toast,
                   genDifficulty, delivered, seqVars, aiVars, submission,
                   client, storeVars>>

\* the provider call settles and generateHint runs to its return
Server_providerSettles(outcome) ==
    /\ hintRequest.state = "awaiting"
    /\ LET settled == generateHint(outcome, hintRequest.gameType,
                                   hintRequest.difficulty)
       IN  hintRequest' = [hintRequest EXCEPT !.state = settled.state,
                                              !.text = settled.text,
                                              !.outcome = OutcomeName(outcome)]
    /\ UNCHANGED <<ctxVars, ctrlVars, showDifficultySelector, score, gridVars,
                   magicVars, puzzle, cryptVars, hectoVars, rounds, toast,
                   genDifficulty, delivered, seqVars, aiVars, submission,
                   client, storeVars>>

\* the caller has taken the settled promise
Server_hintTaken ==
    /\ hintRequest.state \in {"resolved", "rejected"}
    /\ hintRequest' = NoRequest
    /\ UNCHANGED <<ctxVars, ctrlVars, showDifficultySelector, score, gridVars,
                   magicVars, puzzle, cryptVars, hectoVars, rounds, toast,
                   genDifficulty, delivered, seqVars, aiVars, submission,
                   client, storeVars>>

----------------------------------------------------------------------------
(* server/storage.ts: MemStorage, and the route POST /api/results *)

\* initializeGames: the ids of the six games
GameIds == 1 .. 6

\* the gameId of a request: a game, or none
GameIdChoices == {1, 7}

\* the score of a result or of a direct update
ScoreChoices == {5, 7}

\* this.users.get(id): the user (its score), or undefined
Undefined == -1
getUser(id) == IF id \in DOMAIN users THEN users[id] ELSE Undefined

\* what no storage action changes
StoreFrame ==
    UNCHANGED <<ctxVars, ctrlVars, showDifficultySelector, score, gridVars,
                magicVars, puzzle, cryptVars, hectoVars, rounds, toast,
                genDifficulty, delivered, seqVars, aiVars, submission,
                client, hintRequest>>

\* createUser: id = this.userIdCounter++, score: 0; it has no await
MemStorage_createUser ==
    /\ Len(users) < MaxUsers
    /\ users' = Append(users, 0)
    /\ UNCHANGED <<gameResults, microtasks, passed, res>>
    /\ StoreFrame

\* updateUserScore(userId, score) up to its await: getUser has read the user
Awaiting(userId, s, via) ==
    [userId |-> userId, score |-> s, user |-> getUser(userId), via |-> via]

\* updateUserScore(userId, score), called by another caller than
\* createGameResult
MemStorage_updateUserScore(userId, s) ==
    /\ Len(passed) < MaxDirect
    /\ microtasks' = Append(microtasks, Awaiting(userId, s, "direct"))
    /\ passed' = Append(passed, [userId |-> userId, score |-> s])
    /\ UNCHANGED <<users, gameResults, res>>
    /\ StoreFrame

\* createGameResult(insertResult) up to the await of its updateUserScore;
\* through records the caller
createGameResultBody(userId, gameId, s, through) ==
    /\ gameResults' = Append(gameResults,
           [userId |-> userId, gameId |-> gameId, score |-> s,
            through |-> through])
    /\ microtasks' = Append(microtasks, Awaiting(userId, s, through))

MemStorage_createGameResult(userId, gameId, s) ==
    /\ Len(gameResults) < MaxResults
    /\ createGameResultBody(userId, gameId, s, "storage")
    /\ UNCHANGED <<users, passed, res>>
    /\ StoreFrame

\* app.post('/api/results'): 404 unless the user and the game exist, else
\* createGameResult
Route_postResult(userId, gameId, s) ==
    /\ Len(gameResults) < MaxResults
    /\ IF getUser(userId) = Undefined \/ gameId \notin GameIds
       THEN /\ res' = 404
            /\ UNCHANGED <<gameResults, microtasks>>
       ELSE /\ createGameResultBody(userId, gameId, s, "route")
            /\ UNCHANGED res
    /\ UNCHANGED <<users, passed>>
    /\ StoreFrame

\* the oldest waiting updateUserScore goes on after its await, with the
\* user that it read before: this.users.set(userId, {...user, score:
\* user.score + score}); the route then answers 201
MemStorage_resume ==
    /\ microtasks # <<>>
    /\ LET call == Head(microtasks)
       IN  /\ users' = IF call.user = Undefined THEN users
                       ELSE [users EXCEPT ![call.userId] = call.user + call.score]
           /\ res' = IF call.via = "route" THEN 201 ELSE res
    /\ microtasks' = Tail(microtasks)
    /\ UNCHANGED <<gameResults, passed>>
    /\ StoreFrame

----------------------------------------------------------------------------
(* The session: one game component is mounted *)

Games ==
    {"Sudoku", "KenKen", "MagicSquares", "Cryptarithms", "HectoClash",
     "NumberSequences"}

\* the cells the player clicks in the model: the open ones and an original one
SudokuClicked == SudokuRemovable \cup {<<0, 2>>}
KenKenClicked == KenKenOpen \cup {<<0, 0>>}

\* the useState initial values the games share
\* Number Sequences before its first puzzle, no AIAssistant rendered, no
\* score submitted
InitUnmounted ==
    /\ sequence = NoSequence /\ userAnswer = NoAnswer
    /\ isIncorrect = FALSE /\ showRule = FALSE
    /\ aiPending = <<>> /\ hintCount = 0 /\ loadingHint = FALSE
    /\ submission = "none"
    /\ client = NoClient /\ hintRequest = NoRequest
    /\ users = DefaultScores /\ gameResults = <<>>
    /\ microtasks = <<>> /\ passed = <<>> /\ res = 0
    /\ delivered = <<>>

InitShared ==
    /\ timerStarted = FALSE /\ isPaused = FALSE /\ timeIsUp = FALSE
    /\ showDifficultySelector = TRUE
    /\ score = 0
    /\ originalGrid = <<>> /\ cages = <<>>
    /\ selectedCell = NoCell
    /\ isGameComplete = FALSE
    /\ userSolution = <<>> /\ letters = <<>>
    /\ hintsUsed = 0 /\ maxHints = 3
    /\ isCorrect = FALSE /\ showSolution = FALSE /\ gameStarted = FALSE
    /\ expression = <<>> /\ usedNumberIndexes = <<>> /\ hint = ""
    /\ toast = NoToast
    /\ InitUnmounted

\* the state of a game that generates no puzzle when it mounts
InitIdle ==
    /\ grid = <<>> /\ generated = <<>>
    /\ targetSum = 0 /\ availableNumbers = <<>> /\ usedNumbers = <<>>
    /\ puzzle = NoPuzzle
    /\ rounds = 0
    /\ genDifficulty = NoDifficulty

Init ==
    /\ game \in Games
    /\ difficulty \in Difficulties
    /\ InitShared
    /\ \/ game = "Sudoku" /\ size = 9 /\ hintsRemaining = 0 /\ InitIdle
       \/ game = "KenKen" /\ size = 4 /\ hintsRemaining = 3 /\ InitIdle
       \/ game = "NumberSequences" /\ size = 0 /\ hintsRemaining = 0 /\ InitIdle
       \/ game = "Cryptarithms" /\ size = 0 /\ hintsRemaining = 0 /\ InitIdle
       \* MagicSquares runs initializePuzzle in its mount effect
       \/ /\ game = "MagicSquares"
          /\ \E p \in generateMagicSquare(MagicSize(difficulty), difficulty) :
                /\ size = MagicSize(difficulty)
                /\ grid = p.puzzle /\ generated = p.puzzle
                /\ targetSum = p.targetSum
                /\ availableNumbers = p.availableNumbers
          /\ usedNumbers = <<>>
          /\ hintsRemaining = HintAllowance(difficulty)
          /\ puzzle = NoPuzzle
          /\ rounds = 1
          /\ genDifficulty = difficulty
       \* HectoClash runs generateNewPuzzle in its mount effect
       \/ /\ game = "HectoClash"
          /\ puzzle \in generateHectocPuzzle(difficulty)
          /\ size = 0 /\ hintsRemaining = 0
          /\ grid = <<>> /\ generated = <<>>
          /\ targetSum = 0 /\ availableNumbers = <<>> /\ usedNumbers = <<>>
          /\ rounds = 1
          /\ genDifficulty = difficulty

Next ==
    \/ \E d \in Difficulties : GameInitializer_setDifficulty(d)
    \/ GameController_handleStartTimer
    \/ GameController_togglePause
    \/ GameController_handleTimeUp
    \/ GameController_handleShowDifficultySelector
    \/ Sudoku_handleGameStart
    \/ Sudoku_handleReset
    \/ \E cell \in SudokuClicked : Sudoku_selectCell(cell[1], cell[2])
    \/ \E num \in 1 .. 9 : Sudoku_inputNumber(num)
    \/ Sudoku_clearSelectedCell
    \/ Sudoku_useHint
    \/ Sudoku_verifySolution
    \/ KenKen_handleGameStart
    \/ KenKen_handleReset
    \/ \E cell \in KenKenClicked : KenKen_selectCell(cell[1], cell[2])
    \/ \E num \in 1 .. size : KenKen_placeNumber(num)
    \/ KenKen_resetGrid
    \/ KenKen_useHint
    \/ KenKen_checkSolution
    \/ \E d \in Difficulties : MagicSquares_handleDifficultyChange(d)
    \/ MagicSquares_handleReset
    \/ \E cell \in MagicClicked(size) : MagicSquares_selectCell(cell[1], cell[2])
    \/ \E num \in SeqRange(availableNumbers) : MagicSquares_placeNumber(num)
    \/ MagicSquares_resetGrid
    \/ MagicSquares_useHint
    \/ MagicSquares_checkSolution
    \/ Cryptarithms_handleGameStart
    \/ Cryptarithms_togglePause
    \/ \E letter \in SeqRange(letters), value \in CryptChoices :
          Cryptarithms_updateSolution(letter, value)
    \/ Cryptarithms_useHint
    \/ Cryptarithms_checkSolution
    \/ Cryptarithms_newGame
    \/ HectoClash_generateNewPuzzle
    \/ \E index \in 0 .. 1 : HectoClash_addNumber(index)
    \/ \E op \in Operations : HectoClash_addOperation(op)
    \/ HectoClash_clearExpression
    \/ HectoClash_showHint
    \/ HectoClash_evaluateExpression
    \/ NumberSequences_handleGameStart
    \/ NumberSequences_handleReset
    \/ \E value \in SequenceAnswers : NumberSequences_handleInputChange(value)
    \/ NumberSequences_useHint
    \/ NumberSequences_checkAnswer

Spec == Init /\ [][Next]_vars

----------------------------------------------------------------------------
(* The games that render an AIAssistant, with the player also using it: the *)
(* Hint button of the assistant, chat messages, and the callbacks they      *)
(* schedule, interleaved with the handlers of the game                      *)

\* the games of the claim on score submission, with the results sink
SubmitGames == {"Cryptarithms", "HectoClash", "NumberSequences"}

SubmitInit == Init /\ game \in SubmitGames

SubmitNext ==
    \/ \E d \in Difficulties : GameInitializer_setDifficulty(d)
    \/ GameController_handleStartTimer
    \/ GameController_togglePause
    \/ GameController_handleShowDifficultySelector
    \/ Cryptarithms_handleGameStart
    \/ Cryptarithms_togglePause
    \/ \E letter \in SeqRange(letters), value \in CryptChoices :
          Cryptarithms_updateSolution(letter, value)
    \/ Cryptarithms_useHint
    \/ Cryptarithms_checkSolution
    \/ Cryptarithms_newGame
    \/ HectoClash_generateNewPuzzle
    \/ \E index \in 0 .. 1 : HectoClash_addNumber(index)
    \/ \E op \in Operations : HectoClash_addOperation(op)
    \/ HectoClash_clearExpression
    \/ HectoClash_showHint
    \/ HectoClash_evaluateExpression
    \/ NumberSequences_handleGameStart
    \/ NumberSequences_handleReset
    \/ \E value \in SequenceAnswers : NumberSequences_handleInputChange(value)
    \/ NumberSequences_useHint
    \/ NumberSequences_checkAnswer
    \/ \E ok \in BOOLEAN : Results_settle(ok)

SubmitSpec == SubmitInit /\ [][SubmitNext]_vars

\* the server, whatever the games do
ServerNext ==
    \/ \E env \in SUBSET EnvKeys, throws \in BOOLEAN :
          Server_initAIClient(env, throws)
    \/ \E gameType \in GameTypes, d \in Difficulties, complete \in BOOLEAN :
          Server_generateHint(gameType, d, complete)
    \/ \E outcome \in ProviderOutcomes : Server_providerSettles(outcome)
    \/ Server_hintTaken

ServerSpec == Init /\ [][ServerNext]_vars

\* the storage under calls that may overlap
StoreNext ==
    \/ MemStorage_createUser
    \/ \E userId \in DOMAIN users, s \in ScoreChoices :
          MemStorage_updateUserScore(userId, s)
    \/ \E userId \in DOMAIN users, gameId \in GameIdChoices, s \in ScoreChoices :
          MemStorage_createGameResult(userId, gameId, s)
    \/ \E userId \in 1 .. MaxUsers, gameId \in GameIdChoices, s \in ScoreChoices :
          Route_postResult(userId, gameId, s)
    \/ MemStorage_resume

\* the storage does not depend on the game a client has mounted
StoreInit == Init /\ game = "Sudoku" /\ difficulty = "easy"

StoreSpec == StoreInit /\ [][StoreNext]_vars

\* the hints of KenKen and Number Sequences, by button and by assistant
AssistantInit == Init /\ AIAssistantUsed

AssistantNext ==
    \/ \E d \in Difficulties : GameInitializer_setDifficulty(d)
    \/ GameController_handleStartTimer
    \/ GameController_handleShowDifficultySelector
    \/ KenKen_handleGameStart
    \/ KenKen_handleReset
    \/ KenKen_useHint
    \/ NumberSequences_handleGameStart
    \/ NumberSequences_handleReset
    \/ NumberSequences_useHint
    \/ AIAssistant_requestHint
    \/ \E asks \in ChatAsks : AIAssistant_handleSendMessage(asks)
    \/ AIAssistant_reset
    \/ \E i \in 1 .. MaxPending : AIAssistant_timeout(i)

AssistantSpec == AssistantInit /\ [][AssistantNext]_vars

\* Number Sequences with its assistant: a burst of chat messages that ask
\* for a hint, and the check of the answer
BurstInit == Init /\ game = "NumberSequences"

BurstNext ==
    \/ GameController_handleStartTimer
    \/ NumberSequences_handleGameStart
    \/ NumberSequences_useHint
    \/ \E value \in SequenceAnswers : NumberSequences_handleInputChange(value)
    \/ NumberSequences_checkAnswer
    \/ AIAssistant_handleSendMessageWithin(MaxBurst, "hint")
    \/ \E i \in 1 .. MaxBurst : AIAssistant_timeout(i)

BurstSpec == BurstInit /\ [][BurstNext]_vars

----------------------------------------------------------------------------
(* The checks as functions of the grid: a player has filled every cell of a *)
(* puzzle whose cells were all left open, and has the solution checked      *)

\* the exchange of a and b on 0 .. n-1 (the identity when a = b)
Exchange(n, a, b) ==
    [i \in 0 .. n - 1 |-> IF i = a THEN b ELSE IF i = b THEN a ELSE i]

Exchanges(n) == {Exchange(n, a, b) : a, b \in 0 .. n - 1}

\* the state of the games that are not mounted
InitOthers ==
    /\ isPaused = FALSE /\ timeIsUp = FALSE
    /\ showDifficultySelector = FALSE
    /\ score = 0
    /\ originalGrid = <<>>
    /\ selectedCell = NoCell
    /\ isGameComplete = FALSE
    /\ puzzle = NoPuzzle
    /\ userSolution = <<>> /\ letters = <<>>
    /\ hintsUsed = 0 /\ maxHints = 3
    /\ isCorrect = FALSE /\ showSolution = FALSE /\ gameStarted = FALSE
    /\ expression = <<>> /\ usedNumberIndexes = <<>> /\ hint = ""
    /\ toast = NoToast
    /\ rounds = 1
    /\ InitUnmounted
    /\ genDifficulty = difficulty

\* the filled KenKen grids tried: the Latin square with two rows and two
\* columns exchanged, and the Latin square with one cell changed
KenKenFilled(n) ==
    {[cell \in Cells(n) |-> KenKenLatin(n)[<<p[cell[1]], q[cell[2]]>>]] :
        p \in Exchanges(n), q \in Exchanges(n)}
    \cup {[KenKenLatin(n) EXCEPT ![cell] = v] : cell \in Cells(n), v \in 1 .. n}

KenKenCheckInit ==
    /\ game = "KenKen"
    /\ difficulty \in Difficulties
    /\ timerStarted = TRUE
    /\ InitOthers
    /\ size = KenKenSize(difficulty)
    /\ cages = KenKenCages(size)
    /\ hintsRemaining = HintAllowance(difficulty)
    /\ generated = [cell \in Cells(size) |->
                       [value |-> NULL, cageId |-> KenKenCageIdOf(size, cell),
                        isOriginal |-> FALSE]]
    /\ \E values \in KenKenFilled(size) :
          grid = [cell \in Cells(size) |->
                     [generated[cell] EXCEPT !.value = values[cell]]]
    /\ targetSum = 0 /\ availableNumbers = <<>> /\ usedNumbers = <<>>

KenKenCheckNext == KenKen_checkSolution

KenKenCheckSpec == KenKenCheckInit /\ [][KenKenCheckNext]_vars

\* the filled Magic Squares grids tried: the complete square with two rows
\* and two columns exchanged, and the complete square with two cells
\* exchanged
MagicFilled(n) ==
    {[cell \in Cells(n) |-> MagicComplete(n)[<<p[cell[1]], q[cell[2]]>>]] :
        p \in Exchanges(n), q \in Exchanges(n)}
    \cup {[MagicComplete(n) EXCEPT ![a] = MagicComplete(n)[b],
                                   ![b] = MagicComplete(n)[a]] :
            a \in Cells(n), b \in Cells(n)}

MagicCheckInit ==
    /\ game = "MagicSquares"
    /\ difficulty \in Difficulties
    /\ timerStarted = TRUE
    /\ InitOthers
    /\ size = MagicSize(difficulty)
    /\ cages = <<>>
    /\ hintsRemaining = HintAllowance(difficulty)
    /\ generated = [cell \in Cells(size) |-> NULL]
    /\ grid \in MagicFilled(size)
    /\ targetSum = (size * (size * size + 1)) \div 2
    /\ availableNumbers = [i \in 1 .. size * size |-> i]
    /\ usedNumbers = [i \in 1 .. size * size |->
                         grid[<<(i - 1) \div size, (i - 1) % size>>]]

MagicCheckNext == MagicSquares_checkSolution

MagicCheckSpec == MagicCheckInit /\ [][MagicCheckNext]_vars

\* the checks of KenKen and Magic Squares, each on the grids given to it
ChecksInit == KenKenCheckInit \/ MagicCheckInit
ChecksNext == KenKen_checkSolution \/ MagicSquares_checkSolution
ChecksSpec == ChecksInit /\ [][ChecksNext]_vars

----------------------------------------------------------------------------
(* The hint as a function of the grid: a 4x4 puzzle with six cells left to  *)
(* the player, who has filled some of them, rightly or wrongly, and may     *)
(* have selected a cell, asks for hints                                     *)

KenKenHintOpen == {<<0, 0>>, <<0, 1>>, <<0, 2>>, <<1, 0>>, <<1, 1>>, <<1, 3>>}

KenKenHintSelected == {NoCell, <<0, 1>>, <<1, 3>>}

\* what an open cell can hold: nothing, its true value, or the next value
KenKenHintValues(n, cell) ==
    {NULL, KenKenLatin(n)[cell], (KenKenLatin(n)[cell] % n) + 1}

KenKenHintInit ==
    /\ game = "KenKen"
    /\ difficulty = "easy"
    /\ timerStarted = TRUE
    /\ isPaused = FALSE /\ timeIsUp = FALSE
    /\ showDifficultySelector = FALSE
    /\ score = 0
    /\ originalGrid = <<>>
    /\ isGameComplete = FALSE
    /\ puzzle = NoPuzzle
    /\ userSolution = <<>> /\ letters = <<>>
    /\ hintsUsed = 0 /\ maxHints = 3
    /\ isCorrect = FALSE /\ showSolution = FALSE /\ gameStarted = FALSE
    /\ expression = <<>> /\ usedNumberIndexes = <<>> /\ hint = ""
    /\ targetSum = 0 /\ availableNumbers = <<>> /\ usedNumbers = {}
    /\ toast = NoToast
    /\ rounds = 1
    /\ InitUnmounted
    /\ genDifficulty = difficulty
    /\ size = KenKenSize(difficulty)
    /\ cages = KenKenCages(size)
    /\ hintsRemaining = HintAllowance(difficulty)
    /\ generated = [cell \in Cells(size) |->
                       [value |-> IF cell \in KenKenHintOpen THEN NULL
                                  ELSE KenKenLatin(size)[cell],
                        cageId |-> KenKenCageIdOf(size, cell),
                        isOriginal |-> cell \notin KenKenHintOpen]]
    /\ \E values \in [KenKenHintOpen -> 0 .. size] :
          /\ \A cell \in KenKenHintOpen :
                 values[cell] \in KenKenHintValues(size, cell)
          /\ grid = [cell \in Cells(size) |->
                        IF cell \in KenKenHintOpen
                        THEN [generated[cell] EXCEPT !.value = values[cell]]
                        ELSE generated[cell]]
    /\ selectedCell \in KenKenHintSelected

KenKenHintNext == KenKen_useHint

KenKenHintSpec == KenKenHintInit /\ [][KenKenHintNext]_vars

----------------------------------------------------------------------------
(* Properties *)

\* the cells of the mounted grid game that the generator supplied
SudokuOriginals == {cell \in DOMAIN generated : generated[cell] # NULL}
KenKenOriginals == {cell \in DOMAIN generated : generated[cell].isOriginal}

\* C1: in Sudoku and KenKen every cell the generator supplied holds, in every
\* reachable state of the puzzle, the value it had right after generation,
\* whatever selectCell, number input, clearSelectedCell, useHint, resetGrid
\* and check actions were taken.
OriginalCellsKeepValue ==
    /\ game = "Sudoku" =>
          \A cell \in SudokuOriginals : grid[cell] = generated[cell]
    /\ game = "KenKen" =>
          \A cell \in KenKenOriginals :
              /\ grid[cell].value = generated[cell].value
              /\ grid[cell].isOriginal

\* C1, the case: a KenKen puzzle on which the player placed a number, took a
\* hint, cleared the grid and had a solution checked, or a Sudoku puzzle
\* with a wrong number entered, a hint taken and a solution checked
OriginalCellsKeepValue_Witness ==
    \/ /\ game = "KenKen"
       /\ hintsRemaining < HintAllowance(difficulty)
       /\ toast.title = "Invalid Solution"
       /\ selectedCell # NoCell
       /\ KenKenOriginals # {}
    \/ /\ game = "Sudoku"
       /\ hintsRemaining < HintAllowance(difficulty)
       /\ toast.title = "Incorrect"
       /\ \E cell \in SudokuCells : grid[cell] # SudokuSolved[cell]

\* the toasts a check ends with
IncompleteTitles == {"Incomplete", "Incomplete Solution"}
FailedCheckTitles ==
    IncompleteTitles
    \cup {"Incorrect", "Incorrect Solution", "Invalid Solution", "Invalid Cage",
          "Use all numbers", "Invalid Expression"}
CheckTitles == FailedCheckTitles \cup {"Correct!"}

\* C2: in Magic Squares every cell the generator revealed holds its
\* generated value in every reachable state of the puzzle; in particular
\* resetGrid clears only the cells the player filled.
MagicRevealedCellsKeepValue ==
    game = "MagicSquares" =>
        \A cell \in DOMAIN generated :
            generated[cell] # NULL => grid[cell] = generated[cell]

\* C3: a step that ends with the toast of a check that did not succeed
\* changes neither the grid, the assignment, the expression, the numbers and
\* hints used, the score, the completion flags nor the solution visibility.
FailedCheckChangesNothing ==
    [][toast'.title \in FailedCheckTitles =>
          UNCHANGED <<grid, usedNumbers, userSolution, expression,
                      usedNumberIndexes, hintsRemaining, hintsUsed, score,
                      isGameComplete, isCorrect, showSolution>>]_vars

\* the grids the player can complete a Magic Squares grid to with
\* selectCell and placeNumber alone: every empty cell takes a different
\* number of the pool that is not used yet
MagicCompletions(g, n, avail, used) ==
    LET empty == {cell \in Cells(n) : g[cell] = NULL}
        free == SeqRange(avail) \ SeqRange(used)
    IN  IF Cardinality(empty) > Cardinality(free) THEN {}
        ELSE {[cell \in Cells(n) |-> IF cell \in empty THEN f[cell] ELSE g[cell]] :
                f \in {h \in [empty -> free] :
                          \A c1, c2 \in empty : c1 # c2 => h[c1] # h[c2]}}

\* an accepted solution is within reach of the editing actions: by placing
\* numbers on the grid as it is, or after resetGrid, which leaves the grid
\* empty and the whole pool unused
MagicAcceptedWithinReach ==
    \/ \E h \in MagicCompletions(grid, size, availableNumbers, usedNumbers) :
          MagicVerdict(h, size, targetSum, difficulty, hintsRemaining).title
              = "Correct!"
    \/ \E h \in MagicCompletions([cell \in Cells(size) |-> NULL], size,
                                 availableNumbers, <<>>) :
          MagicVerdict(h, size, targetSum, difficulty, hintsRemaining).title
              = "Correct!"

\* C4: in Magic Squares, after a checkSolution that did not succeed on a
\* grid the player filled with selectCell and placeNumber (no hint taken), an
\* accepted solution of the same puzzle is still within reach of selectCell,
\* placeNumber and resetGrid.
MagicFailedCheckRecoverable ==
    (/\ game = "MagicSquares"
     /\ toast.title \in {"Incomplete", "Incorrect"}
     /\ hintsRemaining = HintAllowance(difficulty))
        => MagicAcceptedWithinReach

\* the mounted game has an unfilled cell or an unassigned letter
HasUnfilled ==
    \/ game = "Sudoku" /\ \E cell \in DOMAIN grid : grid[cell] = NULL
    \/ game = "KenKen" /\ \E cell \in DOMAIN grid : grid[cell].value = NULL
    \/ game = "MagicSquares" /\ \E cell \in DOMAIN grid : grid[cell] = NULL
    \/ game = "Cryptarithms"
          /\ \E l \in DOMAIN userSolution : userSolution[l] = -1

\* C5: in Sudoku, KenKen, Magic Squares and Cryptarithms a check on a state
\* with an unfilled cell or an unassigned letter ends with the Incomplete
\* toast, never with an invalid, incorrect or success toast, whatever the
\* filled part holds.  (A check changes neither grid nor assignment, so the
\* state its toast is read in has the cells the check saw.)
UnfilledIsIncomplete ==
    (game # "HectoClash" /\ toast.title \in CheckTitles /\ HasUnfilled)
        => toast.title \in IncompleteTitles

\* C5, the case: an Incomplete toast on a state whose filled part is wrong
UnfilledIsIncomplete_Witness ==
    \/ /\ game = "Sudoku" /\ toast.title = "Incomplete"
       /\ \E cell \in SudokuCells : grid[cell] \notin {NULL, SudokuSolved[cell]}
    \/ /\ game = "Cryptarithms" /\ toast.title = "Incomplete Solution"
       /\ \E l \in DOMAIN userSolution :
             userSolution[l] \notin {-1, puzzle.solution[l]}

\* the largest value of a sequence of numbers
SeqMax(s) == CHOOSE x \in SeqRange(s) : \A y \in SeqRange(s) : x >= y

\* a cage's operation applied to its cell values gives the cage's target:
\* the sum for +, the product for *, the largest value minus all the others
\* for -, the largest value divided by all the others for /, the value for =
CageHolds(g, cage) ==
    LET values == [i \in 1 .. Len(cage.cells) |-> g[cage.cells[i]].value]
        largest == SeqMax(values)
    IN  CASE cage.operation = "+" -> SeqSum(values) = cage.target
          [] cage.operation = "*" -> SeqProd(values) = cage.target
          [] cage.operation = "-" ->
                largest - (SeqSum(values) - largest) = cage.target
          [] cage.operation = "/" ->
                largest = cage.target * (SeqProd(values) \div largest)
          [] cage.operation = "=" -> values[1] = cage.target
          [] OTHER -> FALSE

KenKenValid(g, cs, n) ==
    /\ \A i \in 0 .. n - 1 :
          /\ {g[<<i, j>>].value : j \in 0 .. n - 1} = 1 .. n
          /\ {g[<<j, i>>].value : j \in 0 .. n - 1} = 1 .. n
    /\ \A k \in 1 .. Len(cs) : CageHolds(g, cs[k])

\* C6: KenKen checkSolution accepts a fully filled grid if and only if every
\* row and every column is a permutation of 1..size and every cage's
\* operation on its cell values gives the cage's target exactly.
KenKenAcceptsExactlyValid ==
    (game = "KenKen" /\ toast.title \in CheckTitles /\ ~HasUnfilled)
        => (toast.title = "Correct!" <=> KenKenValid(grid, cages, size))

\* C6, the case: a grid whose rows and columns are permutations is refused
\* for a cage of - or /, and a grid other than the generator's is accepted
KenKenAcceptsExactlyValid_Witness ==
    /\ game = "KenKen" /\ ~HasUnfilled
    /\ \/ toast.title = "Invalid Cage" /\ toast.what \in {"-", "/"}
       \/ /\ toast.title = "Correct!"
          /\ \E cell \in DOMAIN grid :
                grid[cell].value # KenKenLatin(size)[cell]

\* the sum of the values of a set of cells
RECURSIVE SumOver(_, _)
SumOver(g, S) ==
    IF S = {} THEN 0
    ELSE LET cell == CHOOSE c \in S : TRUE
         IN  g[cell] + SumOver(g, S \ {cell})

\* the lines of a square in the order rows, columns, main diagonal, other
\* diagonal
MagicLinesInOrder(n) ==
    [k \in 1 .. 2 * n + 2 |->
        IF k <= n
        THEN [what |-> "Row", idx |-> k,
              cells |-> {<<k - 1, j>> : j \in 0 .. n - 1}]
        ELSE IF k <= 2 * n
        THEN [what |-> "Column", idx |-> k - n,
              cells |-> {<<i, k - n - 1>> : i \in 0 .. n - 1}]
        ELSE IF k = 2 * n + 1
        THEN [what |-> "Main diagonal", idx |-> 0,
              cells |-> {<<i, i>> : i \in 0 .. n - 1}]
        ELSE [what |-> "Other diagonal", idx |-> 0,
              cells |-> {<<i, n - 1 - i>> : i \in 0 .. n - 1}]]

\* C7: Magic Squares checkSolution accepts a fully filled grid if and only
\* if every row, every column and both diagonals sum to targetSum; otherwise
\* its toast reports one line, the first that fails in the order rows,
\* columns, main diagonal, other diagonal, with that line's sum.
MagicChecksLinesInOrder ==
    (game = "MagicSquares" /\ toast.title \in CheckTitles /\ ~HasUnfilled)
        => LET lines == MagicLinesInOrder(size)
               failing == {k \in DOMAIN lines :
                              SumOver(grid, lines[k].cells) # targetSum}
           IN  IF failing = {} THEN toast.title = "Correct!"
               ELSE LET k == CHOOSE x \in failing : \A y \in failing : x <= y
                    IN  toast = Toast("Incorrect", lines[k].what, lines[k].idx,
                                      SumOver(grid, lines[k].cells), targetSum)

\* C7, the case: a grid whose rows, columns and main diagonal sum to
\* targetSum is refused for its other diagonal
MagicChecksLinesInOrder_Witness ==
    /\ game = "MagicSquares" /\ ~HasUnfilled
    /\ toast.title = "Incorrect" /\ toast.what = "Other diagonal"

\* C8: Cryptarithms checkSolution accepts the submitted assignment if and
\* only if it gives every letter a digit 0-9, no digit twice, no leading
\* letter 0, and makes the equation a true equality.
CryptAcceptsExactlyValid ==
    (game = "Cryptarithms"
     /\ toast.title \in {"Correct!", "Incorrect Solution", "Incomplete Solution"})
        => (toast.title = "Correct!" <=> Solves(puzzle.equation, userSolution))

\* C9: in Cryptarithms no two letters hold the same digit 0-9, whatever
\* updateSolution and useHint calls were made.
CryptNoDigitHeldTwice ==
    game = "Cryptarithms" =>
        \A l, m \in DOMAIN userSolution :
            (l # m /\ userSolution[l] = userSolution[m]) => userSolution[l] = -1

\* the parentheses of an expression are balanced: none closes before it is
\* opened, and none is left open
RECURSIVE ParenthesesBalanced(_, _)
ParenthesesBalanced(expr, depth) ==
    IF expr = <<>> THEN depth = 0
    ELSE IF Head(expr) = "(" THEN ParenthesesBalanced(Tail(expr), depth + 1)
    ELSE IF Head(expr) = ")"
    THEN depth > 0 /\ ParenthesesBalanced(Tail(expr), depth - 1)
    ELSE ParenthesesBalanced(Tail(expr), depth)

\* C10: HectoClash evaluateExpression accepts a submission only if the
\* expression is syntactically well-formed: in particular its parentheses
\* are balanced.
HectoAcceptsOnlyWellFormed ==
    (game = "HectoClash" /\ toast.title = "Correct!")
        => ParenthesesBalanced(expression, 0)

----------------------------------------------------------------------------
\* the titles of the toasts evaluateExpression raises
HectoCheckTitles ==
    {"Use all numbers", "Invalid Expression", "Incorrect", "Correct!"}

HectoAllUsed == Len(usedNumberIndexes) = Len(puzzle.numbers)

\* C11: a HectoClash submission ends in exactly one of the usage error, the
\* syntax error, the wrong-result error and the acceptance: the usage error
\* exactly when a number is left unused, whatever the expression is; the
\* syntax error exactly when all numbers are used and the expression cannot
\* be evaluated; the wrong-result error exactly when all numbers are used and
\* the expression evaluates to a value other than the target
HectoFailureOutcomes ==
    (game = "HectoClash" /\ toast.title \in HectoCheckTitles)
        => LET result == JsEvaluate(expression)
           IN  /\ toast.title = "Use all numbers" <=> ~HectoAllUsed
               /\ toast.title = "Invalid Expression"
                    <=> (HectoAllUsed /\ ~result.ok)
               /\ toast.title = "Incorrect"
                    <=> (HectoAllUsed /\ result.ok
                            /\ result.val # <<puzzle.target, 1>>)

\* the usage error is reported for an expression that is also malformed
HectoFailureOutcomes_Witness ==
    /\ game = "HectoClash"
    /\ toast.title = "Use all numbers"
    /\ expression # <<>>
    /\ ~JsEvaluate(expression).ok

----------------------------------------------------------------------------
\* the words of an equation read from left to right, as one sequence
EquationText(eq) == eq[1] \o eq[2] \o eq[3]

\* the letters of an equation in the order of their first appearance
EquationOrder(eq) ==
    LET text == EquationText(eq)
        firsts == {i \in DOMAIN text : \A j \in 1 .. i - 1 : text[j] # text[i]}
    IN  [k \in 1 .. Cardinality(firsts) |->
            text[CHOOSE i \in firsts :
                    Cardinality({j \in firsts : j < i}) = k - 1]]

LeadingLetters(eq) == {eq[i][1] : i \in DOMAIN eq}

\* the letters not correctly assigned when the hint reported by the toast was
\* asked: the hint changed the revealed letter only
NotCorrectBeforeHint ==
    {l \in DOMAIN userSolution : userSolution[l] # puzzle.solution[l]}
        \cup {toast.what}

\* C12: the first hint on a puzzle reveals a leading letter whenever one is
\* not correctly assigned, every later hint reveals the first letter, in the
\* order of appearance in the equation, that is not correctly assigned, and
\* the revealed letter holds its solution digit afterwards
CryptHintOrder ==
    (game = "Cryptarithms" /\ toast.title = "Hint Used")
        => LET order == EquationOrder(puzzle.equation)
               firstWrong ==
                   order[CHOOSE k \in DOMAIN order :
                            /\ order[k] \in NotCorrectBeforeHint
                            /\ \A j \in 1 .. k - 1 :
                                    order[j] \notin NotCorrectBeforeHint]
           IN  /\ userSolution[toast.what] = puzzle.solution[toast.what]
               /\ toast.val = puzzle.solution[toast.what]
               /\ (hintsUsed = 1
                      /\ LeadingLetters(puzzle.equation) \cap NotCorrectBeforeHint # {})
                    => toast.what \in LeadingLetters(puzzle.equation)
               /\ hintsUsed > 1 => toast.what = firstWrong

----------------------------------------------------------------------------
\* the cell the hint reported by the toast went to, and the grid as it was
\* when the hint was asked: the hint filled that cell only
KenKenHintCell == <<toast.idx - 1, toast.aux - 1>>

KenKenBeforeHint == [grid EXCEPT ![KenKenHintCell].value = NULL]

KenKenFilledIn(g, cage) ==
    Cardinality({i \in DOMAIN cage.cells : g[cage.cells[i]].value # NULL})

KenKenPartlyFilled(g) ==
    {i \in DOMAIN cages :
        KenKenFilledIn(g, cages[i]) > 0
            /\ KenKenFilledIn(g, cages[i]) < Len(cages[i].cells)}

KenKenFullestPartly(g) ==
    {i \in KenKenPartlyFilled(g) :
        \A j \in KenKenPartlyFilled(g) :
            KenKenFilledIn(g, cages[i]) >= KenKenFilledIn(g, cages[j])}

KenKenEmptyCells(g) ==
    {cell \in Cells(size) : g[cell].value = NULL /\ ~g[cell].isOriginal}

\* row by row, left to right
KenKenCellBefore(a, b) == a[1] < b[1] \/ (a[1] = b[1] /\ a[2] < b[2])

\* the cell lies in a fullest partly filled cage when there is one, and is
\* the first empty cell of the grid otherwise
KenKenCagePolicy(g, cell) ==
    /\ cell \in KenKenEmptyCells(g)
    /\ IF KenKenPartlyFilled(g) # {}
       THEN \E i \in KenKenFullestPartly(g) : cell \in SeqRange(cages[i].cells)
       ELSE \A other \in KenKenEmptyCells(g) : ~KenKenCellBefore(other, cell)

\* C13 as stated: a KenKen hint goes to an empty non-original cell of the
\* partly filled cage with the most filled cells when there is such a cage,
\* and to the first empty non-original cell of the grid otherwise
KenKenHintFollowsCages ==
    (game = "KenKen" /\ toast.title = "Hint used")
        => KenKenCagePolicy(KenKenBeforeHint, KenKenHintCell)

\* C13 as amended: a KenKen hint goes to the selected cell when that cell is
\* empty and not original; otherwise to an empty non-original cell of the
\* partly filled cage with the most filled cells when there is such a cage,
\* and to the first empty non-original cell of the grid otherwise
KenKenHintFollowsSelectionThenCages ==
    (game = "KenKen" /\ toast.title = "Hint used")
        => LET g == KenKenBeforeHint
           IN  IF selectedCell # NoCell /\ selectedCell \in KenKenEmptyCells(g)
               THEN KenKenHintCell = selectedCell
               ELSE KenKenCagePolicy(g, KenKenHintCell)

\* a hint was placed with no empty cell selected, while two partly filled
\* cages held different numbers of filled cells
KenKenHintFollowsSelectionThenCages_Witness ==
    /\ game = "KenKen" /\ toast.title = "Hint used"
    /\ ~(selectedCell # NoCell /\ selectedCell \in KenKenEmptyCells(KenKenBeforeHint))
    /\ KenKenFullestPartly(KenKenBeforeHint) # KenKenPartlyFilled(KenKenBeforeHint)

----------------------------------------------------------------------------
\* C14: a KenKen hint that places a value places one of 1 .. size that no
\* cell of the row and no cell of the column of its cell holds, changes that
\* cell only and takes exactly one from hintsRemaining; a hint that places no
\* value leaves the grid and hintsRemaining as they are
KenKenHintPlacesFreeValue ==
    [][game = "KenKen"
        => IF toast'.title = "Hint used"
           THEN LET cell == <<toast'.idx - 1, toast'.aux - 1>>
                IN  /\ toast'.val \in 1 .. size
                    /\ grid[cell].value = NULL
                    /\ grid' = [grid EXCEPT ![cell].value = toast'.val]
                    /\ \A i \in 0 .. size - 1 :
                           /\ grid[<<cell[1], i>>].value # toast'.val
                           /\ grid[<<i, cell[2]>>].value # toast'.val
                    /\ hintsRemaining' = hintsRemaining - 1
           ELSE UNCHANGED <<grid, hintsRemaining>>]_vars

\* the hint placed a value other than the smallest, the row or the column
\* holding the smaller ones
KenKenHintPlacesFreeValue_Witness ==
    /\ game = "KenKen" /\ toast.title = "Hint used"
    /\ toast.val > 1
    /\ \E i \in 0 .. size - 1 :
           /\ i # toast.idx - 1
           /\ grid[<<i, toast.aux - 1>>].value = 1


\* the place of the first ":" of a rule, and the texts before and after it
FirstColon(rule) ==
    CHOOSE i \in DOMAIN rule :
        rule[i] = Colon /\ \A j \in 1 .. i - 1 : rule[j] # Colon

RuleCategory(rule) == SubSeq(rule, 1, FirstColon(rule) - 1)
RuleDetail(rule) == SubSeq(rule, FirstColon(rule) + 1, Len(rule))

HintTier(rule, k) ==
    IF k = 1 THEN RuleCategory(rule)
    ELSE IF k = 2 THEN RuleDetail(rule) ELSE rule

\* C15: in Number Sequences the first, second and third hint delivered for a
\* sequence are the rule's category, the rule's detail and the full rule,
\* through the Hint button and through the assistant alike
SequenceHintTiers ==
    game = "NumberSequences" =>
        \A k \in DOMAIN delivered :
            k <= 3 => delivered[k].text = HintTier(sequence.rule, k)

\* C16: for a puzzle of Number Sequences or KenKen the hints delivered, by the
\* Hint button and by the assistant together, never exceed the allowance of
\* the difficulty, and in Number Sequences hintsUsed <= maxHints
HintsWithinAllowance ==
    /\ (game \in {"NumberSequences", "KenKen"} /\ rounds > 0) =>
           Len(delivered) <= HintAllowance(genDifficulty)
    /\ game = "NumberSequences" => hintsUsed <= maxHints

\* the cases in which the claim names the built-in hint as the result
HintFallbackCases ==
    {"noClient", "rejected", "timedOut", "nullContent", "emptyContent"}

\* C17: a generateHint call never rejects, resolves with a text that is not
\* empty, and resolves with the built-in hint of its game type and
\* difficulty when there is no client, when the provider call fails or
\* times out, and when the provider returns empty content
HintAlwaysAnswers ==
    /\ hintRequest.state # "rejected"
    /\ hintRequest.state = "resolved" =>
          /\ hintRequest.text # ""
          /\ hintRequest.outcome \in HintFallbackCases =>
                hintRequest.text =
                    getGenericHint(hintRequest.gameType, hintRequest.difficulty)

HintAlwaysAnswers_Witness ==
    /\ hintRequest.state = "resolved"
    /\ hintRequest.outcome = "timedOut"
    /\ hintRequest.gameType = "NumberSequences"
    /\ client = "openai"

\* everything but the state of the request to the results sink
playVars ==
    <<ctxVars, ctrlVars, showDifficultySelector, score, gridVars, magicVars,
      puzzle, cryptVars, hectoVars, rounds, toast, genDifficulty, delivered,
      seqVars, aiVars, serverVars>>

\* the puzzle is solved and its score was sent to the results sink
SolvedAndSubmitted ==
    /\ submission \in {"pending", "succeeded", "failed"}
    /\ IF game = "HectoClash" THEN isGameComplete ELSE isCorrect

\* the steps from a solved puzzle to the next one: Next Puzzle, New Game,
\* Play New Game, and Start Game on the screen they lead to
TowardsNextPuzzle ==
    \/ HectoClash_generateNewPuzzle
    \/ Cryptarithms_newGame
    \/ Cryptarithms_handleGameStart
    \/ GameController_handleShowDifficultySelector
    \/ NumberSequences_handleGameStart

\* C18: a score submission that succeeds, fails or stays pending leaves the
\* completion flag, the score and the puzzle as the successful check set
\* them, and in all three cases the player can go on to the next puzzle
SubmissionNeverBlocks ==
    /\ [][submission' # submission /\ submission = "pending" =>
              UNCHANGED playVars]_vars
    /\ [](SolvedAndSubmitted /\ game \in SubmitGames /\ rounds < MaxRounds =>
              ENABLED TowardsNextPuzzle)

SubmissionNeverBlocks_Witness ==
    /\ submission = "failed"
    /\ game = "HectoClash" /\ isGameComplete
    /\ toast.title = "Correct!"
    /\ rounds < MaxRounds

\* the new-game actions: Start Game, the difficulty choice after Play New
\* Game, Reset / Try Again, Next Puzzle and a change of difficulty
NewGameAction ==
    \/ Sudoku_handleGameStart
    \/ KenKen_handleGameStart
    \/ Cryptarithms_handleGameStart
    \/ NumberSequences_handleGameStart
    \/ \E d \in Difficulties : MagicSquares_handleDifficultyChange(d)
    \/ Sudoku_handleReset
    \/ KenKen_handleReset
    \/ MagicSquares_handleReset
    \/ NumberSequences_handleReset
    \/ HectoClash_generateNewPuzzle

\* the player's input is as in a puzzle nobody has touched
InputCleared ==
    CASE game \in {"Sudoku", "KenKen"} ->
             grid = generated /\ selectedCell = NoCell
      [] game = "MagicSquares" ->
             grid = generated /\ usedNumbers = <<>> /\ selectedCell = NoCell
      [] game = "Cryptarithms" ->
             \A l \in DOMAIN userSolution : userSolution[l] = -1
      [] game = "HectoClash" ->
             expression = <<>> /\ usedNumberIndexes = <<>>
      [] game = "NumberSequences" -> userAnswer = NoAnswer

\* the hint allowance is that of the difficulty, nothing of it used
HintsReset ==
    CASE game \in {"Sudoku", "KenKen", "MagicSquares"} ->
             hintsRemaining = HintAllowance(difficulty)
      [] game \in {"Cryptarithms", "NumberSequences"} ->
             hintsUsed = 0 /\ maxHints = HintAllowance(difficulty)
      [] OTHER -> TRUE

\* a puzzle is there as it was generated: no input, not completed, the
\* whole hint allowance of the difficulty left
PuzzleUntouched ==
    /\ rounds > 0
    /\ InputCleared
    /\ ~isGameComplete /\ ~isCorrect
    /\ HintsReset

\* C19: every new-game action generates a puzzle anew, with the player's
\* input cleared, the completion flag false and the hint allowance of the
\* difficulty; the puzzle before it is gone (a puzzle that nobody has
\* touched yet may stay)
NewGameIsFresh ==
    [][NewGameAction =>
          /\ rounds' = rounds + 1 \/ PuzzleUntouched
          /\ PuzzleUntouched']_vars

\* a generated puzzle is on the screen, to be played or checked
PuzzlePlayable ==
    /\ rounds > 0
    /\ CASE game \in {"Sudoku", "KenKen", "MagicSquares", "NumberSequences"} ->
                ~showDifficultySelector
         [] game = "Cryptarithms" -> gameStarted
         [] OTHER -> TRUE

\* C20: while a generated puzzle is playable or being scored, the current
\* difficulty is the difficulty the puzzle was generated with
DifficultyFixedWhilePlayable ==
    PuzzlePlayable => difficulty = genDifficulty

DifficultyFixedWhilePlayable_Witness ==
    /\ PuzzlePlayable
    /\ game = "KenKen" /\ rounds = 2
    /\ difficulty = "medium" /\ size = KenKenSize("medium")
    /\ toast.title = "Hint used"

\* C21: a check of KenKen or Magic Squares leaves the grid and the cage or
\* target data it reads as they were, so that the check run again on the
\* state it left gives the verdict and the violation it has just reported
CheckIsIdempotent ==
    [][/\ KenKen_checkSolution =>
              /\ UNCHANGED <<grid, cages, size>>
              /\ toast' = KenKenVerdict(grid', cages', size', difficulty',
                                        hintsRemaining')
       /\ MagicSquares_checkSolution =>
              /\ UNCHANGED <<grid, size, targetSum, availableNumbers>>
              /\ toast' = MagicVerdict(grid', size', targetSum', difficulty',
                                       hintsRemaining')]_vars

CheckIsIdempotent_Witness ==
    /\ game = "KenKen"
    /\ toast.title = "Invalid Cage"
    /\ \E i \in DOMAIN cages :
          cages[i].operation = "-" /\ Len(cages[i].cells) > 1

\* the cells of the grid that hold a number the puzzle did not reveal there
MagicPlayerCells ==
    {cell \in DOMAIN grid : grid[cell] # NULL /\ grid[cell] # generated[cell]}

\* C22: in Magic Squares no number is in two cells the player or a hint
\* filled, and usedNumbers lists, each once, exactly the numbers the player
\* or a hint has placed in the grid
MagicNumbersUsedOnce ==
    game = "MagicSquares" =>
        /\ \A a, b \in MagicPlayerCells : grid[a] = grid[b] => a = b
        /\ SeqRange(usedNumbers) = {grid[cell] : cell \in MagicPlayerCells}
        /\ \A i, j \in DOMAIN usedNumbers :
              usedNumbers[i] = usedNumbers[j] => i = j

\* C23: a Sudoku hint on a selected cell that is not original changes
\* neither grid nor hintsRemaining nor score when the solver returns null,
\* and otherwise sets the cell to the solver's value and takes one hint
SudokuHintNullChangesNothing ==
    [][Sudoku_useHint /\ ~originalGrid[selectedCell] =>
          LET values == solveSudokuForHint(grid, selectedCell[1], selectedCell[2])
          IN  IF values = {NULL}
              THEN UNCHANGED <<grid, hintsRemaining, score>>
              ELSE /\ \E v \in values \ {NULL} :
                         grid' = [grid EXCEPT ![selectedCell] = v]
                   /\ hintsRemaining' = hintsRemaining - 1]_vars

SudokuHintNullChangesNothing_Witness ==
    /\ game = "Sudoku"
    /\ toast.title = "Hint unavailable"
    /\ hintsRemaining > 0

\* the checks of the six games
CheckAction ==
    \/ Sudoku_verifySolution
    \/ KenKen_checkSolution
    \/ MagicSquares_checkSolution
    \/ Cryptarithms_checkSolution
    \/ HectoClash_evaluateExpression
    \/ NumberSequences_checkAnswer

\* the puzzle has been solved
PuzzleCompleted == isGameComplete \/ isCorrect

\* C24: a score goes to the results sink only in a check that succeeds, a
\* check succeeds only on a puzzle not yet completed and completes it, no
\* check is possible on a completed puzzle, and only the generation of a
\* new puzzle makes a completed puzzle uncompleted: at most one score for
\* each puzzle
OneScorePerPuzzle ==
    /\ [][/\ submission' # submission /\ submission' = "pending" =>
                 CheckAction /\ toast'.title = "Correct!"
          /\ CheckAction /\ toast'.title = "Correct!" =>
                 ~PuzzleCompleted /\ PuzzleCompleted'
          /\ PuzzleCompleted /\ ~PuzzleCompleted' => rounds' = rounds + 1]_vars
    /\ [](PuzzleCompleted => ~ENABLED CheckAction)

OneScorePerPuzzle_Witness ==
    /\ game = "KenKen"
    /\ isGameComplete /\ toast.title = "Correct!"
    /\ submission = "pending"

\* the score a solved puzzle earns before the hint penalty is subtracted
ScoreBeforePenalty(g, d) ==
    IF g = "KenKen" THEN 150 + 150 * DifficultyMultiplier(d)
    ELSE 100 + (Max2(0, 600 - 0) \div 10) * DifficultyMultiplier(d)

\* the hints used on the puzzle: the allowance it was generated with less
\* the hints that remain
HintsUsedOnPuzzle == HintAllowance(genDifficulty) - hintsRemaining

\* C25: when a Sudoku, KenKen or Magic Squares puzzle is solved, the hint
\* penalty subtracted from the awarded score is 15 times the number of hints
\* used on that puzzle (0 when no hint was used), at every difficulty
HintPenaltyIsPerHint ==
    game \in {"Sudoku", "KenKen", "MagicSquares"} /\ toast.title = "Correct!" =>
        ScoreBeforePenalty(game, genDifficulty) - toast.val = 15 * HintsUsedOnPuzzle

\* C26: the hintCount of the AIAssistant (never premium in KenKen and Number
\* Sequences) is never negative, whatever the order of Hint clicks, chat
\* messages, resets and delayed callbacks
HintCountNeverNegative == AIAssistantUsed => hintCount >= 0

\* the digits of the expression, in order
ExpressionDigits == SelectSeq(expression, IsDigit)

\* C27: in HectoClash usedNumberIndexes has no repeated index, every index
\* is a position of puzzle.numbers, and the digits of the expression are
\* numbers[i] for the i of usedNumberIndexes, in the same order
HectoIndexesMatchExpression ==
    game = "HectoClash" =>
        /\ \A i, j \in DOMAIN usedNumberIndexes :
               usedNumberIndexes[i] = usedNumberIndexes[j] => i = j
        /\ \A i \in DOMAIN usedNumberIndexes :
               usedNumberIndexes[i] \in 0 .. Len(puzzle.numbers) - 1
        /\ Len(ExpressionDigits) = Len(usedNumberIndexes)
        /\ \A i \in DOMAIN usedNumberIndexes :
               ExpressionDigits[i] =
                   DigitChars[puzzle.numbers[usedNumberIndexes[i] + 1] + 1]

\* the second number was entered before the first, around an operation, on
\* a puzzle that is not the first one
HectoIndexesMatchExpression_Witness ==
    /\ game = "HectoClash" /\ rounds > 1
    /\ usedNumberIndexes = <<1, 0>>
    /\ Len(expression) = 3 /\ expression[2] = "+"

\* C28: in every game the score is never negative, after any sequence of
\* hints (of the game or of the AI assistant), checks and new puzzles
ScoreNeverNegative == score >= 0

\* C29: in a game under GameController time's up and a running game exclude each other,
\* and a paused game is a started one: timeIsUp implies timerStarted is
\* false, and isPaused implies timerStarted is true
TimeUpExcludesRunning ==
    ControllerMounted =>
        /\ timeIsUp => ~timerStarted
        /\ isPaused => timerStarted

\* the second half of C29 alone
PausedOnlyWhenStarted == ControllerMounted /\ isPaused => timerStarted

RECURSIVE SumScores(_, _)
\* the sum of the scores that the entries of a sequence have for a user
SumScores(entries, userId) ==
    IF entries = <<>> THEN 0
    ELSE (IF Head(entries).userId = userId THEN Head(entries).score ELSE 0)
         + SumScores(Tail(entries), userId)

\* the score a user starts with
InitialScore(userId) ==
    IF userId \in DOMAIN DefaultScores THEN DefaultScores[userId] ELSE 0

\* C30: once every call has returned, the score of each user is its initial
\* score plus the scores of the stored results of that user plus the scores
\* passed directly to updateUserScore, also when calls overlapped; and a
\* result stored through POST /api/results has a user and a game that exist
ScoresAddUp ==
    /\ microtasks = <<>> =>
           \A userId \in DOMAIN users :
               users[userId] = InitialScore(userId)
                               + SumScores(gameResults, userId)
                               + SumScores(passed, userId)
    /\ \A i \in DOMAIN gameResults :
           gameResults[i].through = "route" =>
               /\ gameResults[i].userId \in DOMAIN users
               /\ gameResults[i].gameId \in GameIds

\* the second half of C30 alone
RouteStoresForKnownUserAndGame ==
    \A i \in DOMAIN gameResults :
        gameResults[i].through = "route" =>
            /\ gameResults[i].userId \in DOMAIN users
            /\ gameResults[i].gameId \in GameIds

====
